---- MODULE Spec2Model ----
(***************************************************************************)
(* ctf-arena: the compile and execute work-queue pipelines, the binary     *)
(* store and compile cache, the challenge-submission driver, its output    *)
(* verification and keep-best leaderboard, the leaderboard queries, the    *)
(* per-minute rate limiter, the per-test run loop of a submission, the     *)
(* worker's parsing of the statistics line at the end of stderr, the       *)
(* direct mode of POST /execute and the two steps of a job submission.     *)
(*                                                                         *)
(* Byte strings are sequences of byte values (97 is "a", 61 "=", 59 ";").  *)
(* SHA-256 is an ideal hash: the digest of a byte string is a value that   *)
(* names that byte string, so distinct inputs have distinct digests.       *)
(* Timestamps are values of a logical clock; 0 stands for an unset         *)
(* Option<DateTime>.                                                       *)
(***************************************************************************)
EXTENDS Integers, Sequences, FiniteSets, TLC

VARIABLES
    \* ---- compute_cache_key, called on one compile request
    ck_req,         \* the request: source, language, optimization, flag map
    ck_orders,      \* the iteration orders of the flag map seen so far
    ck_keys,        \* the cache keys computed for ck_req so far
    \* ---- binary store: table binaries, rows ordered by created_at (oldest first)
    binaries,       \* rows [id, data, size, language, optimization, compiler_version, compile_flags]
    store_call,     \* history: the arguments of the last db::store_binary call
    \* ---- execute pipeline: stream JOBS and the KV buckets jobs and results
    jobs_stream,    \* job id -> [job, state, deliveries]: the messages not yet acked
    jobs_kv,        \* job id -> JobMetadata
    results_kv,     \* job id -> ExecutionResult
    runs,           \* table runs: rows [id, job_id, instructions]
    ew,             \* execute worker -> its position in main's loop and its locals
    \* ---- compile pipeline: stream COMPILES, the KV buckets compiles and compile_cache
    compiles_stream,    \* job id -> [job, state, deliveries]: the messages not yet acked
    compiles_kv,        \* job id -> CompileMetadata (keys "<id>")
    compile_results,    \* job id -> CompileResult (keys "<id>_result" of bucket compiles)
    compile_cache_kv,   \* cache key -> CompileResult
    cw,                 \* compile worker -> its position in main's loop and its locals
    api_cached,         \* what check_compile_cache last returned to POST /compile
    \* ---- challenge submissions: tables challenge_submissions and leaderboard_entries
    subs,               \* submission id -> its row and the locals of its orchestrator
    leaderboard_entries,    \* <<user_id, challenge_id, language>> -> row
    now,                \* the clock that NOW() reads
    \* ---- verify_output, called on one pair of outputs
    verify,             \* the call: actual, expected, mode, and what it returned
    \* ---- one test case of a submission, from the sandbox to the status response
    judge,              \* the test case, the program's output, the result, the response
    \* ---- leaderboard queries
    board,              \* the rows a leaderboard query read and what it returned
    rate,               \* check_rate_limit: the clock, the rate_limits table and the calls in flight
    stats,              \* one captured stderr and what the worker stored for it
    direct,   \* the direct mode of POST /execute: the semaphore, the requests, the containers
    submitting,     \* submit_job and submit_compile_job: the calls between the KV put and the publish
    \* ---- history
    cache_owner,        \* history: cache key -> the job whose compilation wrote the entry
    \* ---- environment
    faults          \* infrastructure faults so far (expired ack_wait, failed request, TTL deletion)

vars == <<ck_req, ck_orders, ck_keys, binaries, store_call, jobs_stream, jobs_kv, results_kv, runs, ew,
          compiles_stream, compiles_kv, compile_results, compile_cache_kv, cw, api_cached,
          cache_owner, subs, leaderboard_entries, now, verify, judge, board, rate, stats, direct, submitting, faults>>

keyVars == <<ck_req, ck_orders, ck_keys>>
storeVars == <<binaries, store_call>>
execVars == <<jobs_stream, jobs_kv, results_kv, runs, ew>>
compileVars == <<compiles_stream, compiles_kv, compile_results, compile_cache_kv, cw,
                 api_cached, cache_owner>>
subVars == <<subs, leaderboard_entries, now>>
viewVars == <<verify, judge, board, rate, stats, direct, submitting>>
notKeyVars == <<storeVars, execVars, compileVars, subVars, viewVars, faults>>

(***************************************************************************)
(* Bounds of the model.                                                    *)
(***************************************************************************)
MaxFlags == 2       \* flag names a compile request may carry
MaxJobs == 2        \* jobs (compile and execute together) the API accepts
MaxFaults == 1      \* infrastructure faults in one run

(***************************************************************************)
(* Byte strings.                                                           *)
(***************************************************************************)
ByteEq == 61        \* b"="
ByteSemi == 59      \* b";"

RECURSIVE BytesLess(_, _)
\* a < b in the byte-lexicographic order of Rust's String/&str Ord
BytesLess(a, b) ==
    IF b = <<>> THEN FALSE
    ELSE IF a = <<>> THEN TRUE
    ELSE IF Head(a) # Head(b) THEN Head(a) < Head(b)
    ELSE BytesLess(Tail(a), Tail(b))

\* sha2::Sha256 over the bytes fed to the hasher (ideal: injective)
Sha256(bytes) == [sha256 |-> bytes]

\* hex::encode of a digest
hex_encode(digest) == [hex |-> digest]

(***************************************************************************)
(* Language and Optimization tags and their canonical lowercase strings.   *)
(***************************************************************************)
Languages == {"C", "Cpp", "Go"}
Optimizations == {"Debug", "Release", "Size"}

Language_as_str(l) ==
    CASE l = "C" -> <<99>>
      [] l = "Cpp" -> <<99, 112, 112>>
      [] l = "Go" -> <<103, 111>>
      [] l = "Asm" -> <<97, 115, 109>>
      [] l = "Wasm" -> <<119, 97, 115, 109>>

Optimization_as_str(o) ==
    CASE o = "Debug" -> <<100, 101, 98, 117, 103>>
      [] o = "Release" -> <<114, 101, 108, 101, 97, 115, 101>>
      [] o = "Size" -> <<115, 105, 122, 101>>

(***************************************************************************)
(* compute_cache_key.  A HashMap iterates in an arbitrary order: the       *)
(* operator takes the flags as the sequence of (key, value) pairs in the   *)
(* order flags.iter() yields them.                                         *)
(***************************************************************************)
RECURSIVE InsertByKey(_, _)
\* insert pair p after every pair whose key is <= p's key (stable)
InsertByKey(p, sorted) ==
    IF sorted = <<>> THEN <<p>>
    ELSE IF BytesLess(p[1], Head(sorted)[1]) THEN <<p>> \o sorted
    ELSE <<Head(sorted)>> \o InsertByKey(p, Tail(sorted))

RECURSIVE SortByKeyFrom(_, _)
SortByKeyFrom(pairs, sorted) ==
    IF pairs = <<>> THEN sorted
    ELSE SortByKeyFrom(Tail(pairs), InsertByKey(Head(pairs), sorted))

\* flag_pairs.sort_by_key(|(k, _)| *k) left out: the pairs stay in iteration order
sort_by_key_Unsorted(pairs) == pairs

\* flag_pairs.sort_by_key(|(k, _)| *k)
sort_by_key(pairs) == SortByKeyFrom(pairs, <<>>)

RECURSIVE HashFlags(_)
\* for (k, v) in flag_pairs: update(k); update(b"="); update(v); update(b";")
HashFlags(pairs) ==
    IF pairs = <<>> THEN <<>>
    ELSE Head(pairs)[1] \o <<ByteEq>> \o Head(pairs)[2] \o <<ByteSemi>>
         \o HashFlags(Tail(pairs))

\* the bytes fed to the hasher, in order
CacheKeyPreimage(source, language, optimization, flag_iter) ==
    source \o Language_as_str(language) \o Optimization_as_str(optimization)
    \o HashFlags(sort_by_key(flag_iter))

\* api: queue.rs compute_cache_key
compute_cache_key(source, language, optimization, flag_iter) ==
    hex_encode(Sha256(CacheKeyPreimage(source, language, optimization, flag_iter)))

\* compile worker: its own copy of compute_cache_key
worker_compute_cache_key(source, language, optimization, flag_iter) ==
    hex_encode(Sha256(
        source \o Language_as_str(language) \o Optimization_as_str(optimization)
        \o HashFlags(sort_by_key(flag_iter))))

(***************************************************************************)
(* Inputs of compute_cache_key.                                            *)
(***************************************************************************)
Sources == {<<>>, <<97>>, <<97, 99>>}
FlagNames == {<<107 + i>> : i \in 0..(MaxFlags - 1)} \cup {<<107, 61>>}
FlagValues == {<<49>>, <<59>>}
FlagMaps == UNION {[ks -> FlagValues] : ks \in {s \in SUBSET FlagNames : Cardinality(s) <= MaxFlags}}

\* requests that meet at the seams of the hashed bytes: a source that ends with
\* the first byte of a language tag ("w" before "asm"), a flag value that holds '='
\* and ';' ("1;m=1")
SeamSources == {<<>>, <<119>>, <<97>>}
SeamFlagMaps ==
    UNION {[ks -> {<<49>>, <<49, ByteSemi, 109, ByteEq, 49>>}] : ks \in SUBSET {<<107>>, <<109>>}}
SeamRequests ==
    [source : SeamSources, language : {"C", "Asm", "Wasm"}, optimization : {"Release", "Size"},
     flags : SeamFlagMaps]

\* every order in which HashMap::iter may yield the entries of map m
IterOrders(m) ==
    {o \in [1..Cardinality(DOMAIN m) -> {<<k, m[k]>> : k \in DOMAIN m}] :
        \A i, j \in DOMAIN o : i # j => o[i] # o[j]}

CompileRequests ==
    [source : Sources, language : {"C", "Cpp"}, optimization : {"Release", "Size"},
     flags : FlagMaps]

\* POST /compile computes the key of the request (check_compile_cache)
KeyApi(order) ==
    /\ order \in IterOrders(ck_req.flags)
    /\ ck_orders' = ck_orders \cup {order}
    /\ ck_keys' = ck_keys \cup
          {compute_cache_key(ck_req.source, ck_req.language, ck_req.optimization, order)}
    /\ UNCHANGED <<ck_req, notKeyVars>>

\* the compile worker computes the key of the job carrying the same request
KeyWorker(order) ==
    /\ order \in IterOrders(ck_req.flags)
    /\ ck_orders' = ck_orders \cup {order}
    /\ ck_keys' = ck_keys \cup
          {worker_compute_cache_key(ck_req.source, ck_req.language, ck_req.optimization, order)}
    /\ UNCHANGED <<ck_req, notKeyVars>>

(***************************************************************************)
(* Binary store: table binaries (db.rs).  Option<String> metadata is a     *)
(* string, Null when absent.                                               *)
(***************************************************************************)
Null == <<>>
Some(x) == <<x>>

\* the contents of the binaries that are uploaded or compiled
Blobs == {<<1>>, <<2>>}

\* format!("sha256-{}", hex::encode(Sha256::digest(binary)))
compute_binary_id(binary) == <<"sha256-", hex_encode(Sha256(binary))>>

\* the ids a client may name
BinaryIds == {compute_binary_id(b) : b \in Blobs}

NoMetadata ==
    [language |-> Null, optimization |-> Null, compiler_version |-> Null,
     compile_flags |-> Null]

\* SQL COALESCE(a, b): the first argument that is not null
COALESCE(a, b) == IF a # Null THEN a ELSE b

HasBinary(tbl, id) == \E i \in DOMAIN tbl : tbl[i].id = id

RowIndex(tbl, id) == CHOOSE i \in DOMAIN tbl : tbl[i].id = id

\* db::store_binary: INSERT ... ON CONFLICT (id) DO UPDATE SET <metadata>;
\* data, size and created_at of an existing row are not in the SET list
db_store_binary(tbl, id, data, metadata) ==
    IF HasBinary(tbl, id)
    THEN LET i == RowIndex(tbl, id)
             old == tbl[i]
         IN [tbl EXCEPT ![i] =
                [old EXCEPT
                    !.language = COALESCE(metadata.language, old.language),
                    !.optimization = COALESCE(metadata.optimization, old.optimization),
                    !.compiler_version =
                        COALESCE(metadata.compiler_version, old.compiler_version),
                    !.compile_flags = COALESCE(metadata.compile_flags, old.compile_flags)]]
    ELSE Append(tbl, [id |-> id, data |-> data, size |-> Len(data),
                      language |-> metadata.language,
                      optimization |-> metadata.optimization,
                      compiler_version |-> metadata.compiler_version,
                      compile_flags |-> metadata.compile_flags])

\* db::get_binary: SELECT data FROM binaries WHERE id = $1 (<<>> is not found)
db_get_binary(tbl, id) == IF HasBinary(tbl, id) THEN tbl[RowIndex(tbl, id)].data ELSE <<>>

\* db::cleanup_old_binaries: DELETE FROM binaries WHERE created_at < cutoff;
\* n is the number of rows older than the cutoff
db_cleanup_old_binaries(tbl, n) == SubSeq(tbl, n + 1, Len(tbl))

\* a call of db::store_binary on the table
store_binary_call(id, data, metadata) ==
    /\ binaries' = db_store_binary(binaries, id, data, metadata)
    /\ store_call' = Some([id |-> id, data |-> data, metadata |-> metadata])

\* the metadata a client may put in the query of PUT /binaries/:id
StoreBinaryQueries ==
    [language : {Null, Some(<<99>>), Some(<<103, 111>>)},
     optimization : {Null, Some(<<114, 101, 108, 101, 97, 115, 101>>)},
     compiler_version : {Null},
     compile_flags : {Null}]

\* PUT /binaries/:id (main.rs store_binary): the body is stored under the id of
\* the path, with the metadata of the query
store_binary(binary_id, body, query) ==
    store_binary_call(binary_id, body,
        [language |-> query.language, optimization |-> query.optimization,
         compiler_version |-> query.compiler_version,
         compile_flags |-> query.compile_flags])

\* an infrastructure fault happens (when happens is true)
Fault(happens) ==
    IF happens THEN faults < MaxFaults /\ faults' = faults + 1 ELSE UNCHANGED faults

(***************************************************************************)
(* Queue substrate, execute side: stream JOBS (work-queue retention,       *)
(* explicit ack, max_deliver 3) and the KV buckets jobs and results.       *)
(***************************************************************************)
MaxDeliver == 3

ExecWorkers == {"w1", "w2"}

Terminal == {"Completed", "Failed"}

\* jobs created so far, on both pipelines (metadata is never deleted: TTL aside)
JobCount == Cardinality(DOMAIN jobs_kv) + Cardinality(DOMAIN compiles_kv)

\* QueueClient::submit_job: put Pending metadata, then publish to jobs.submit
submit_job(job) ==
    /\ jobs_kv' = (job.id :> [status |-> "Pending", started_at |-> 0,
                              completed_at |-> 0, error |-> Null]) @@ jobs_kv
    /\ jobs_stream' = (job.id :> [job |-> job, state |-> "ready", deliveries |-> 0])
                      @@ jobs_stream

\* update_job_status writing the status alone: no timestamp, no error
update_job_status_StatusOnly(kv, job_id, status, error) ==
    IF job_id \notin DOMAIN kv THEN kv
    ELSE [kv EXCEPT ![job_id].status = status]

\* worker: update_job_status (the KV get and put of one call)
update_job_status(kv, job_id, status, error) ==
    IF job_id \notin DOMAIN kv THEN kv
    ELSE LET metadata == kv[job_id]
         IN [kv EXCEPT ![job_id] =
                CASE status = "Running" ->
                        [metadata EXCEPT !.status = status, !.started_at = 1]
                  [] status \in Terminal ->
                        [metadata EXCEPT !.status = status, !.completed_at = 1,
                                         !.error = error]
                  [] OTHER -> [metadata EXCEPT !.status = status]]

NoJob == [id |-> 0, binary_id |-> <<>>, network_enabled |-> FALSE]
NoResult == [instructions |-> 0, exit_code |-> 0]
IdleExecWorker ==
    [pc |-> "idle", job |-> NoJob, binary |-> <<>>, result |-> NoResult, error |-> Null,
     network |-> "not run"]

\* what the sandbox collaborator may report back
SandboxResults == [instructions : {0, 7}, exit_code : {0}]

\* POST /submit with an uploaded binary: store it under its computed id, submit the job
submit(bin) ==
    /\ JobCount < MaxJobs
    /\ LET bid == compute_binary_id(bin)
       IN /\ store_binary_call(bid, bin, NoMetadata)
          /\ submit_job([id |-> JobCount + 1, binary_id |-> bid, network_enabled |-> FALSE])
    /\ UNCHANGED <<keyVars, viewVars, subVars, compileVars, results_kv, runs, ew, faults>>

\* POST /execute with a queue: the binary is stored and a job submitted; the
\* handler then polls the job, which changes nothing
execute_queued(bin) ==
    /\ JobCount < MaxJobs
    /\ LET bid == compute_binary_id(bin)
       IN /\ store_binary_call(bid, bin, NoMetadata)
          /\ submit_job([id |-> JobCount + 1, binary_id |-> bid, network_enabled |-> FALSE])
    /\ UNCHANGED <<keyVars, viewVars, subVars, compileVars, results_kv, runs, ew, faults>>

\* POST /submit with binary_id: the id must resolve in the store
submit_by_id(bid) ==
    /\ JobCount < MaxJobs
    /\ db_get_binary(binaries, bid) # <<>>
    /\ submit_job([id |-> JobCount + 1, binary_id |-> bid, network_enabled |-> FALSE])
    /\ UNCHANGED <<keyVars, viewVars, subVars, compileVars, storeVars, results_kv, runs, ew, faults>>

\* janitor: rows older than the TTL are deleted
Janitor(n) ==
    /\ n \in 1..Len(binaries)
    /\ binaries' = db_cleanup_old_binaries(binaries, n)
    /\ Fault(TRUE)
    /\ UNCHANGED <<keyVars, viewVars, subVars, compileVars, execVars, store_call>>

\* serde_json::from_slice(&msg.payload): a payload that carries no job does not parse
from_slice(payload) == IF "id" \in DOMAIN payload THEN Some(payload) ELSE Null

\* ack_wait passes without an ack: the message may be delivered again
JobsAckWaitExpires(j) ==
    /\ j \in DOMAIN jobs_stream
    /\ jobs_stream[j].state = "inflight"
    /\ jobs_stream' = [jobs_stream EXCEPT ![j].state = "ready"]
    /\ Fault(TRUE)
    /\ UNCHANGED <<keyVars, viewVars, subVars, compileVars, storeVars, jobs_kv, results_kv, runs, ew>>

\* consumer.fetch().max_messages(1): a delivery of job j to worker w
ExecFetch(w, j) ==
    /\ ew[w].pc = "idle"
    /\ j \in DOMAIN jobs_stream
    /\ jobs_stream[j].state = "ready"
    /\ jobs_stream[j].deliveries < MaxDeliver
    /\ from_slice(jobs_stream[j].job) # Null
    /\ jobs_stream' = [jobs_stream EXCEPT ![j].state = "inflight",
                                          ![j].deliveries = @ + 1]
    /\ ew' = [ew EXCEPT ![w] = [IdleExecWorker EXCEPT !.pc = "fetch_binary",
                                                      !.job = jobs_stream[j].job]]
    /\ UNCHANGED <<keyVars, viewVars, subVars, compileVars, storeVars, jobs_kv, results_kv, runs,
                   faults>>

\* GET /binaries/:id answers: found, not found, or the request fails; the Err of
\* update_job_status (a KV get or put that fails) is dropped: let _ = ...
ExecFetchBinary(w, network_ok, kv_ok) ==
    /\ ew[w].pc = "fetch_binary"
    /\ LET binary == db_get_binary(binaries, ew[w].job.binary_id)
       IN IF network_ok /\ binary # <<>>
          THEN /\ kv_ok
               /\ ew' = [ew EXCEPT ![w].pc = "set_running", ![w].binary = binary]
               /\ UNCHANGED jobs_kv
          ELSE /\ jobs_kv' = IF kv_ok
                             THEN update_job_status(jobs_kv, ew[w].job.id, "Failed",
                                                    Some("Binary not found"))
                             ELSE jobs_kv
               /\ ew' = [ew EXCEPT ![w].pc = "ack"]
    /\ IF network_ok /\ kv_ok THEN UNCHANGED faults
       ELSE /\ faults + (IF network_ok THEN 0 ELSE 1) + (IF kv_ok THEN 0 ELSE 1) <= MaxFaults
            /\ faults' = faults + (IF network_ok THEN 0 ELSE 1) + (IF kv_ok THEN 0 ELSE 1)
    /\ UNCHANGED <<keyVars, viewVars, subVars, compileVars, storeVars, jobs_stream, results_kv, runs>>

\* update_job_status(Running); its Err is logged and the job goes on
ExecSetRunning(w, ok) ==
    /\ ew[w].pc = "set_running"
    /\ jobs_kv' = IF ok THEN update_job_status(jobs_kv, ew[w].job.id, "Running", Null)
                  ELSE jobs_kv
    /\ ew' = [ew EXCEPT ![w].pc = "sandbox"]
    /\ Fault(~ok)
    /\ UNCHANGED <<keyVars, viewVars, subVars, compileVars, storeVars, jobs_stream, results_kv,
                   runs>>

\* a docker run that never passes --network=none
docker_network_Default(job) == "default"

\* execute_sandbox, the docker run command: if !job.network_enabled
\* { cmd.arg("--network=none") }; without the argument docker attaches the
\* container to its default network
docker_network(job) == IF ~job.network_enabled THEN "none" ELSE "default"

\* execute_sandbox returns Ok(result)
ExecSandboxOk(w, result) ==
    /\ ew[w].pc = "sandbox"
    /\ result \in SandboxResults
    /\ ew' = [ew EXCEPT ![w].pc = "store_result", ![w].result = result,
                        ![w].network = docker_network(ew[w].job)]
    /\ UNCHANGED <<keyVars, viewVars, subVars, compileVars, storeVars, jobs_stream, jobs_kv,
                   results_kv, runs, faults>>

\* execute_sandbox returns Err (docker failure, wall-clock timeout)
ExecSandboxErr(w) ==
    /\ ew[w].pc = "sandbox"
    /\ ew' = [ew EXCEPT ![w].pc = "set_failed", ![w].error = Some("Execution timed out"),
                        ![w].network = docker_network(ew[w].job)]
    /\ UNCHANGED <<keyVars, viewVars, subVars, compileVars, storeVars, jobs_stream, jobs_kv,
                   results_kv, runs, faults>>

\* store_job_result: results_kv.put(job_id, result); its Err is logged and the
\* job goes on
ExecStoreResult(w, ok) ==
    /\ ew[w].pc = "store_result"
    /\ results_kv' = IF ok THEN (ew[w].job.id :> ew[w].result) @@ results_kv ELSE results_kv
    /\ ew' = [ew EXCEPT ![w].pc = "persist_run"]
    /\ Fault(~ok)
    /\ UNCHANGED <<keyVars, viewVars, subVars, compileVars, storeVars, jobs_stream, jobs_kv,
                   runs>>

\* INSERT INTO runs without ON CONFLICT (job_id): every call adds a row
db_save_run_Insert(tbl, job_id, result) ==
    Append(tbl, [id |-> Len(tbl) + 1, job_id |-> job_id,
                 instructions |-> result.instructions])

\* db::save_run: INSERT INTO runs ... ON CONFLICT (job_id) DO UPDATE SET <results>
\* RETURNING id; a new row takes a fresh id (DEFAULT gen_random_uuid()), an
\* existing row keeps its id
db_save_run(tbl, job_id, result) ==
    IF \E i \in DOMAIN tbl : tbl[i].job_id = job_id
    THEN [i \in DOMAIN tbl |->
            IF tbl[i].job_id = job_id
            THEN [tbl[i] EXCEPT !.instructions = result.instructions] ELSE tbl[i]]
    ELSE Append(tbl, [id |-> Len(tbl) + 1, job_id |-> job_id,
                      instructions |-> result.instructions])

\* persist_run: POST /runs; a failure is logged and the job goes on
ExecPersistRun(w, ok) ==
    /\ ew[w].pc = "persist_run"
    /\ runs' = IF ok THEN db_save_run(runs, ew[w].job.id, ew[w].result) ELSE runs
    /\ ew' = [ew EXCEPT ![w].pc = "set_completed"]
    /\ Fault(~ok)
    /\ UNCHANGED <<keyVars, viewVars, subVars, compileVars, storeVars, jobs_stream, jobs_kv,
                   results_kv>>

\* update_job_status(Completed); its Err is logged and the job goes on
ExecSetCompleted(w, ok) ==
    /\ ew[w].pc = "set_completed"
    /\ jobs_kv' = IF ok THEN update_job_status(jobs_kv, ew[w].job.id, "Completed", Null)
                  ELSE jobs_kv
    /\ ew' = [ew EXCEPT ![w].pc = "ack"]
    /\ Fault(~ok)
    /\ UNCHANGED <<keyVars, viewVars, subVars, compileVars, storeVars, jobs_stream, results_kv,
                   runs>>

\* update_job_status(Failed, Some(e)); its Err is logged and the job goes on
ExecSetFailed(w, ok) ==
    /\ ew[w].pc = "set_failed"
    /\ jobs_kv' = IF ok THEN update_job_status(jobs_kv, ew[w].job.id, "Failed", ew[w].error)
                  ELSE jobs_kv
    /\ ew' = [ew EXCEPT ![w].pc = "ack"]
    /\ Fault(~ok)
    /\ UNCHANGED <<keyVars, viewVars, subVars, compileVars, storeVars, jobs_stream, results_kv,
                   runs>>

\* an acked message leaves the stream
StreamAck(stream, j) == [k \in DOMAIN stream \ {j} |-> stream[k]]

\* msg.ack() left out: the worker goes on to the next fetch
ExecAck_Skipped(w, ok) ==
    /\ ew[w].pc = "ack"
    /\ ew' = [ew EXCEPT ![w] = IdleExecWorker]
    /\ UNCHANGED <<keyVars, viewVars, subVars, compileVars, storeVars, jobs_stream, jobs_kv,
                   results_kv, runs, faults>>

\* msg.ack(): the message leaves the stream; a failed ack is logged and leaves it there
ExecAck(w, ok) ==
    /\ ew[w].pc = "ack"
    /\ jobs_stream' = IF ok THEN StreamAck(jobs_stream, ew[w].job.id) ELSE jobs_stream
    /\ ew' = [ew EXCEPT ![w] = IdleExecWorker]
    /\ Fault(~ok)
    /\ UNCHANGED <<keyVars, viewVars, subVars, compileVars, storeVars, jobs_kv, results_kv, runs>>

ExecNext ==
    \/ \E bin \in Blobs : submit(bin)
    \/ \E bid \in BinaryIds : submit_by_id(bid)
    \/ \E n \in 1..Len(binaries) : Janitor(n)
    \/ \E j \in DOMAIN jobs_stream : JobsAckWaitExpires(j)
    \/ \E w \in ExecWorkers, j \in DOMAIN jobs_stream : ExecFetch(w, j)
    \/ \E w \in ExecWorkers, network_ok \in BOOLEAN, kv_ok \in BOOLEAN :
            ExecFetchBinary(w, network_ok, kv_ok)
    \/ \E w \in ExecWorkers, ok \in BOOLEAN : ExecSetRunning(w, ok)
    \/ \E w \in ExecWorkers, result \in SandboxResults : ExecSandboxOk(w, result)
    \/ \E w \in ExecWorkers : ExecSandboxErr(w)
    \/ \E w \in ExecWorkers, ok \in BOOLEAN : ExecStoreResult(w, ok)
    \/ \E w \in ExecWorkers, ok \in BOOLEAN : ExecPersistRun(w, ok)
    \/ \E w \in ExecWorkers, ok \in BOOLEAN : ExecSetCompleted(w, ok)
    \/ \E w \in ExecWorkers, ok \in BOOLEAN : ExecSetFailed(w, ok)
    \/ \E w \in ExecWorkers, ok \in BOOLEAN : ExecAck(w, ok)


\* the deliveries of one execute job to the workers
DeliveryNext ==
    \/ \E j \in DOMAIN jobs_stream : JobsAckWaitExpires(j)
    \/ \E w \in ExecWorkers, j \in DOMAIN jobs_stream : ExecFetch(w, j)
    \/ \E w \in ExecWorkers, network_ok \in BOOLEAN, kv_ok \in BOOLEAN :
            ExecFetchBinary(w, network_ok, kv_ok)
    \/ \E w \in ExecWorkers, ok \in BOOLEAN : ExecSetRunning(w, ok)
    \/ \E w \in ExecWorkers, result \in SandboxResults : ExecSandboxOk(w, result)
    \/ \E w \in ExecWorkers : ExecSandboxErr(w)
    \/ \E w \in ExecWorkers, ok \in BOOLEAN : ExecStoreResult(w, ok)
    \/ \E w \in ExecWorkers, ok \in BOOLEAN : ExecPersistRun(w, ok)
    \/ \E w \in ExecWorkers, ok \in BOOLEAN : ExecSetCompleted(w, ok)
    \/ \E w \in ExecWorkers, ok \in BOOLEAN : ExecSetFailed(w, ok)
    \/ \E w \in ExecWorkers, ok \in BOOLEAN : ExecAck(w, ok)

(***************************************************************************)
(* Queue substrate, compile side, and the compile worker.                  *)
(***************************************************************************)
CompileWorkers == {"c1", "c2"}

\* the KV bucket binaries of QueueClient: created at connect, written nowhere
binaries_kv == <<>>

\* the compile requests of the pipeline (no flags: one iteration order)
PipelineSources == {<<97>>, <<97, 99>>}

\* QueueClient::check_compile_cache: a hit is returned only if binaries_kv holds the binary
check_compile_cache(source, language, optimization, flag_iter) ==
    LET cache_key == compute_cache_key(source, language, optimization, flag_iter)
    IN IF cache_key \in DOMAIN compile_cache_kv
       THEN LET result == compile_cache_kv[cache_key]
            IN IF result.binary_id \in DOMAIN binaries_kv THEN Some(result) ELSE Null
       ELSE Null

\* QueueClient::submit_compile_job: put Pending metadata, then publish to compiles.submit
submit_compile_job(job) ==
    /\ compiles_kv' = (job.id :> [status |-> "Pending", started_at |-> 0,
                                  completed_at |-> 0, error |-> Null]) @@ compiles_kv
    /\ compiles_stream' = (job.id :> [job |-> job, state |-> "ready", deliveries |-> 0])
                          @@ compiles_stream

\* compile worker: update_compile_status (the KV get and put of one call)
update_compile_status(kv, job_id, status, error) ==
    IF job_id \notin DOMAIN kv THEN kv
    ELSE LET metadata == kv[job_id]
         IN [kv EXCEPT ![job_id] =
                CASE status = "Compiling" ->
                        [metadata EXCEPT !.status = status, !.started_at = 1]
                  [] status \in Terminal ->
                        [metadata EXCEPT !.status = status, !.completed_at = 1,
                                         !.error = error]
                  [] OTHER -> [metadata EXCEPT !.status = status]]

\* the compiler collaborator is deterministic: one binary per source
CompilerOutput(source) ==
    [binary |-> IF source = <<97>> THEN <<1>> ELSE <<2>>,
     compiler_version |-> Some("cc 1.0"), compile_flags |-> Null]

MAX_ATTEMPTS == 3

NoCompileJob ==
    [id |-> 0, source_code |-> <<>>, language |-> "C", optimization |-> "Release",
     flags |-> <<>>]
NoCompileResult == [binary_id |-> <<>>, binary_size |-> 0, cached |-> FALSE]
IdleCompileWorker ==
    [pc |-> "idle", job |-> NoCompileJob, cache_key |-> <<>>, binary |-> <<>>,
     attempts |-> 0, result |-> NoCompileResult, error |-> Null]

\* POST /compile: probe the cache (a hit is only logged), then submit the job
compile(source) ==
    /\ JobCount < MaxJobs
    /\ api_cached' = check_compile_cache(source, "C", "Release", <<>>)
    /\ submit_compile_job([id |-> JobCount + 1, source_code |-> source, language |-> "C",
                           optimization |-> "Release", flags |-> <<>>])
    /\ UNCHANGED <<keyVars, viewVars, subVars, storeVars, execVars, compile_results,
                   compile_cache_kv, cw, cache_owner, faults>>

\* a compile_cache entry reaches its TTL
CacheExpires(key) ==
    /\ key \in DOMAIN compile_cache_kv
    /\ compile_cache_kv' = [k \in DOMAIN compile_cache_kv \ {key} |-> compile_cache_kv[k]]
    /\ cache_owner' = [k \in DOMAIN cache_owner \ {key} |-> cache_owner[k]]
    /\ Fault(TRUE)
    /\ UNCHANGED <<keyVars, viewVars, subVars, storeVars, execVars, compiles_stream, compiles_kv,
                   compile_results, cw, api_cached>>

\* ack_wait passes without an ack: the message may be delivered again
CompilesAckWaitExpires(j) ==
    /\ j \in DOMAIN compiles_stream
    /\ compiles_stream[j].state = "inflight"
    /\ compiles_stream' = [compiles_stream EXCEPT ![j].state = "ready"]
    /\ Fault(TRUE)
    /\ UNCHANGED <<keyVars, viewVars, subVars, storeVars, execVars, compiles_kv, compile_results,
                   compile_cache_kv, cw, api_cached, cache_owner>>

\* consumer.fetch().max_messages(1): a delivery of compile job j to worker w
CompileFetch(w, j) ==
    /\ cw[w].pc = "idle"
    /\ j \in DOMAIN compiles_stream
    /\ compiles_stream[j].state = "ready"
    /\ compiles_stream[j].deliveries < MaxDeliver
    /\ from_slice(compiles_stream[j].job) # Null
    /\ compiles_stream' = [compiles_stream EXCEPT ![j].state = "inflight",
                                                  ![j].deliveries = @ + 1]
    /\ LET job == compiles_stream[j].job
       IN cw' = [cw EXCEPT ![w] =
                    [IdleCompileWorker EXCEPT
                        !.pc = "check_cache", !.job = job,
                        !.cache_key = worker_compute_cache_key(
                            job.source_code, job.language, job.optimization, job.flags)]]
    /\ UNCHANGED <<keyVars, viewVars, subVars, storeVars, execVars, compiles_kv, compile_results,
                   compile_cache_kv, api_cached, cache_owner, faults>>

\* a worker that never consults the cache
CacheProbeHits_Never(cache, cache_key) == FALSE

\* the worker's cache probe finds an entry under the key: it is taken as a hit
CacheProbeHits(cache, cache_key) == cache_key \in DOMAIN cache

\* compile_cache_kv.get(&cache_key): on a hit the entry is the job's result, cached = true
CompileCheckCache(w) ==
    /\ cw[w].pc = "check_cache"
    /\ IF CacheProbeHits(compile_cache_kv, cw[w].cache_key)
       THEN cw' = [cw EXCEPT ![w].pc = "hit_put_result",
                             ![w].result = [compile_cache_kv[cw[w].cache_key]
                                               EXCEPT !.cached = TRUE]]
       ELSE cw' = [cw EXCEPT ![w].pc = "set_compiling"]
    /\ UNCHANGED <<keyVars, viewVars, subVars, storeVars, execVars, compiles_stream, compiles_kv,
                   compile_results, compile_cache_kv, api_cached, cache_owner, faults>>

\* compiles_kv.put("<id>_result", result), on the hit path and after a
\* compilation; its Err is logged and the job goes on
CompilePutResult(w, ok) ==
    /\ cw[w].pc \in {"hit_put_result", "put_result"}
    /\ compile_results' = IF ok THEN (cw[w].job.id :> cw[w].result) @@ compile_results
                          ELSE compile_results
    /\ cw' = [cw EXCEPT ![w].pc = "set_completed"]
    /\ Fault(~ok)
    /\ UNCHANGED <<keyVars, viewVars, subVars, storeVars, execVars, compiles_stream, compiles_kv,
                   compile_cache_kv, api_cached, cache_owner>>

\* update_compile_status(Compiling); its Err is logged and the job goes on
CompileSetCompiling(w, ok) ==
    /\ cw[w].pc = "set_compiling"
    /\ compiles_kv' = IF ok
                      THEN update_compile_status(compiles_kv, cw[w].job.id, "Compiling", Null)
                      ELSE compiles_kv
    /\ cw' = [cw EXCEPT ![w].pc = "compile"]
    /\ Fault(~ok)
    /\ UNCHANGED <<keyVars, viewVars, subVars, storeVars, execVars, compiles_stream, compile_results,
                   compile_cache_kv, api_cached, cache_owner>>

\* compile_source returns Ok(output)
CompileSourceOk(w) ==
    /\ cw[w].pc = "compile"
    /\ cw' = [cw EXCEPT ![w].pc = "upload",
                        ![w].binary = CompilerOutput(cw[w].job.source_code).binary]
    /\ UNCHANGED <<keyVars, viewVars, subVars, storeVars, execVars, compiles_stream, compiles_kv,
                   compile_results, compile_cache_kv, api_cached, cache_owner, faults>>

\* compile_source returns Err (non-zero exit, timeout, empty binary)
CompileSourceErr(w) ==
    /\ cw[w].pc = "compile"
    /\ cw' = [cw EXCEPT ![w].pc = "set_failed", ![w].error = Some("Compilation failed")]
    /\ UNCHANGED <<keyVars, viewVars, subVars, storeVars, execVars, compiles_stream, compiles_kv,
                   compile_results, compile_cache_kv, api_cached, cache_owner, faults>>

\* what one PUT of the upload loop comes back with: Ok(resp) with a success
\* status, Ok(resp) with another status, Err(e)
UploadOutcomes == {"success", "http_error", "network_error"}

\* a store_compile_result that goes on to the cache entry when its last attempt failed
CompileUpload_IgnoreLastFailure(w, outcome) ==
    /\ cw[w].pc = "upload"
    /\ LET attempts == cw[w].attempts + 1
           binary_id == compute_binary_id(cw[w].binary)
           output == CompilerOutput(cw[w].job.source_code)
       IN IF outcome = "success"
          THEN /\ store_binary(binary_id, cw[w].binary,
                    [language |-> Some(Language_as_str(cw[w].job.language)),
                     optimization |-> Some(Optimization_as_str(cw[w].job.optimization)),
                     compiler_version |-> output.compiler_version,
                     compile_flags |-> output.compile_flags])
               /\ cw' = [cw EXCEPT ![w].pc = "cache_put", ![w].attempts = attempts,
                            ![w].result = [binary_id |-> binary_id,
                                           binary_size |-> Len(cw[w].binary),
                                           cached |-> FALSE]]
          ELSE /\ UNCHANGED storeVars
               /\ IF attempts < MAX_ATTEMPTS
                  THEN cw' = [cw EXCEPT ![w].attempts = attempts]
                  ELSE cw' = [cw EXCEPT ![w].pc = "cache_put", ![w].attempts = attempts,
                                 ![w].result = [binary_id |-> binary_id,
                                                binary_size |-> Len(cw[w].binary),
                                                cached |-> FALSE]]
    /\ UNCHANGED <<keyVars, viewVars, subVars, execVars, compiles_stream, compiles_kv,
                   compile_results, compile_cache_kv, api_cached, cache_owner, faults>>

\* store_compile_result, one turn of the upload loop: PUT /binaries/<id>?language=..
CompileUpload(w, outcome) ==
    /\ cw[w].pc = "upload"
    /\ LET attempts == cw[w].attempts + 1
           binary_id == compute_binary_id(cw[w].binary)
           output == CompilerOutput(cw[w].job.source_code)
       IN IF outcome = "success"
          THEN /\ store_binary(binary_id, cw[w].binary,
                    [language |-> Some(Language_as_str(cw[w].job.language)),
                     optimization |-> Some(Optimization_as_str(cw[w].job.optimization)),
                     compiler_version |-> output.compiler_version,
                     compile_flags |-> output.compile_flags])
               /\ cw' = [cw EXCEPT ![w].pc = "cache_put", ![w].attempts = attempts,
                            ![w].result = [binary_id |-> binary_id,
                                           binary_size |-> Len(cw[w].binary),
                                           cached |-> FALSE]]
          ELSE /\ UNCHANGED storeVars
               /\ IF attempts < MAX_ATTEMPTS
                  THEN cw' = [cw EXCEPT ![w].attempts = attempts]
                  ELSE cw' = [cw EXCEPT ![w].pc = "set_failed", ![w].attempts = attempts,
                                 ![w].error = Some(<<"Failed to store binary", outcome>>)]
    /\ UNCHANGED <<keyVars, viewVars, subVars, execVars, compiles_stream, compiles_kv,
                   compile_results, compile_cache_kv, api_cached, cache_owner, faults>>

\* store_compile_result: compile_cache_kv.put(cache_key, result), then Ok(result);
\* a failed put is the Err of store_compile_result
CompileCachePut(w, ok) ==
    /\ cw[w].pc = "cache_put"
    /\ IF ok
       THEN /\ compile_cache_kv' = (cw[w].cache_key :> cw[w].result) @@ compile_cache_kv
            /\ cache_owner' = (cw[w].cache_key :> cw[w].job.id) @@ cache_owner
            /\ cw' = [cw EXCEPT ![w].pc = "put_result"]
       ELSE /\ UNCHANGED <<compile_cache_kv, cache_owner>>
            /\ cw' = [cw EXCEPT ![w].pc = "set_failed",
                                ![w].error = Some("Failed to store cache entry")]
    /\ Fault(~ok)
    /\ UNCHANGED <<keyVars, viewVars, subVars, storeVars, execVars, compiles_stream, compiles_kv,
                   compile_results, api_cached>>

\* update_compile_status(Completed); its Err is logged and the job goes on
CompileSetCompleted(w, ok) ==
    /\ cw[w].pc = "set_completed"
    /\ compiles_kv' = IF ok
                      THEN update_compile_status(compiles_kv, cw[w].job.id, "Completed", Null)
                      ELSE compiles_kv
    /\ cw' = [cw EXCEPT ![w].pc = "ack"]
    /\ Fault(~ok)
    /\ UNCHANGED <<keyVars, viewVars, subVars, storeVars, execVars, compiles_stream, compile_results,
                   compile_cache_kv, api_cached, cache_owner>>

\* update_compile_status(Failed, Some(e)); its Err is logged and the job goes on
CompileSetFailed(w, ok) ==
    /\ cw[w].pc = "set_failed"
    /\ compiles_kv' = IF ok
                      THEN update_compile_status(compiles_kv, cw[w].job.id, "Failed", cw[w].error)
                      ELSE compiles_kv
    /\ cw' = [cw EXCEPT ![w].pc = "ack"]
    /\ Fault(~ok)
    /\ UNCHANGED <<keyVars, viewVars, subVars, storeVars, execVars, compiles_stream, compile_results,
                   compile_cache_kv, api_cached, cache_owner>>

\* msg.ack(): the message leaves the stream; a failed ack is logged and leaves it there
CompileAck(w, ok) ==
    /\ cw[w].pc = "ack"
    /\ compiles_stream' = IF ok THEN StreamAck(compiles_stream, cw[w].job.id)
                          ELSE compiles_stream
    /\ cw' = [cw EXCEPT ![w] = IdleCompileWorker]
    /\ Fault(~ok)
    /\ UNCHANGED <<keyVars, viewVars, subVars, storeVars, execVars, compiles_kv, compile_results,
                   compile_cache_kv, api_cached, cache_owner>>

CompileNext ==
    \/ \E source \in PipelineSources : compile(source)
    \/ \E key \in DOMAIN compile_cache_kv : CacheExpires(key)
    \/ \E n \in 1..Len(binaries) : Janitor(n)
    \/ \E j \in DOMAIN compiles_stream : CompilesAckWaitExpires(j)
    \/ \E w \in CompileWorkers, j \in DOMAIN compiles_stream : CompileFetch(w, j)
    \/ \E w \in CompileWorkers : CompileCheckCache(w)
    \/ \E w \in CompileWorkers, ok \in BOOLEAN : CompilePutResult(w, ok)
    \/ \E w \in CompileWorkers, ok \in BOOLEAN : CompileSetCompiling(w, ok)
    \/ \E w \in CompileWorkers : CompileSourceOk(w)
    \/ \E w \in CompileWorkers : CompileSourceErr(w)
    \/ \E w \in CompileWorkers, outcome \in UploadOutcomes : CompileUpload(w, outcome)
    \/ \E w \in CompileWorkers, ok \in BOOLEAN : CompileCachePut(w, ok)
    \/ \E w \in CompileWorkers, ok \in BOOLEAN : CompileSetCompleted(w, ok)
    \/ \E w \in CompileWorkers, ok \in BOOLEAN : CompileSetFailed(w, ok)
    \/ \E w \in CompileWorkers, ok \in BOOLEAN : CompileAck(w, ok)


KeyNext ==
    \/ \E order \in IterOrders(ck_req.flags) : KeyApi(order)
    \/ \E order \in IterOrders(ck_req.flags) : KeyWorker(order)

(***************************************************************************)
(* Challenge submissions (challenges.rs) and the leaderboard (db.rs).  The *)
(* compile and execute jobs of a submission are seen through what          *)
(* wait_for_compile, wait_for_execution and get_run_by_job_id return.      *)
(***************************************************************************)
MaxSubs == 2

Users == {"u1", "u2"}

\* the challenge of the model: its id, its language, its test cases
ChallengeId == "ch"
ChallengeLanguage == "c"

\* table challenges: the challenge of the submissions, and one whose programs
\* may use the network
Challenges ==
    [ch |-> [network_enabled |-> FALSE], net |-> [network_enabled |-> TRUE]]
TestCases == <<"t1", "t2">>

\* what wait_for_execution returns for a test: Null for Err (Failed, timeout),
\* else the instruction count and whether verify_output accepts the stdout
ExecOutcomes ==
    {Null} \cup {Some([instructions |-> n, passed |-> p]) : n \in {3, 5}, p \in BOOLEAN}

\* db::update_challenge_submission_status: UPDATE ... SET status = $2,
\* <column> = COALESCE($n, <column>)
update_challenge_submission_status(tbl, submission_id, status, binary_id, test_results, instructions, error_message) ==
    [tbl EXCEPT ![submission_id] =
        [@ EXCEPT !.status = status,
                  !.binary_id = COALESCE(binary_id, @),
                  !.test_results_json = COALESCE(test_results, @),
                  !.instructions = COALESCE(instructions, @),
                  !.error_message = COALESCE(error_message, @),
                  !.completed_at = IF status \in {"passed", "failed"} THEN 1 ELSE @]]

\* the same upsert replacing the row on an equal count as well
update_leaderboard_entry_OnEqual(tbl, user_id, challenge_id, language, instructions, run_id, source_code, is_verified, created_at) ==
    LET key == <<user_id, challenge_id, language>>
        EXCLUDED == [instructions |-> instructions, run_id |-> run_id,
                     source_code |-> source_code, is_verified |-> is_verified,
                     created_at |-> created_at]
    IN IF key \in DOMAIN tbl /\ ~(EXCLUDED.instructions <= tbl[key].instructions)
       THEN tbl
       ELSE (key :> EXCLUDED) @@ tbl

\* db::update_leaderboard_entry: INSERT ... ON CONFLICT (user_id, challenge_id,
\* language) DO UPDATE SET <column> = CASE WHEN EXCLUDED.instructions <
\* leaderboard_entries.instructions THEN EXCLUDED.<column> ELSE <column> END
update_leaderboard_entry(tbl, user_id, challenge_id, language, instructions, run_id, source_code, is_verified, created_at) ==
    LET key == <<user_id, challenge_id, language>>
        EXCLUDED == [instructions |-> instructions, run_id |-> run_id,
                     source_code |-> source_code, is_verified |-> is_verified,
                     created_at |-> created_at]
        Case(column) ==
            IF EXCLUDED.instructions < tbl[key].instructions
            THEN EXCLUDED[column] ELSE tbl[key][column]
    IN IF key \in DOMAIN tbl
       THEN [tbl EXCEPT ![key] =
                [instructions |-> Case("instructions"), run_id |-> Case("run_id"),
                 source_code |-> Case("source_code"), is_verified |-> Case("is_verified"),
                 created_at |-> Case("created_at")]]
       ELSE (key :> EXCLUDED) @@ tbl

\* submit_challenge: db::create_challenge_submission, then the orchestrator starts
submit_challenge(user, is_verified) ==
    /\ Len(subs) < MaxSubs
    /\ subs' = Append(subs,
          [user_id |-> user, challenge_id |-> ChallengeId, language |-> ChallengeLanguage,
           source_code |-> <<"source", Len(subs) + 1>>, is_verified |-> is_verified,
           status |-> "pending", binary_id |-> Null, instructions |-> Null,
           test_results_json |-> Null, error_message |-> Null, completed_at |-> 0,
           pc |-> "set_compiling", test |-> 1, test_results |-> <<>>, all_passed |-> TRUE,
           max_instructions |-> 0, final_run_id |-> Null, executions |-> <<>>])
    /\ UNCHANGED <<keyVars, viewVars, storeVars, execVars, compileVars, leaderboard_entries, now,
                   faults>>

\* the orchestrator has returned: its locals are gone
Returned(row) ==
    [row EXCEPT !.pc = "done", !.test = 1, !.test_results = <<>>, !.all_passed = TRUE,
                !.max_instructions = 0, !.final_run_id = Null, !.executions = <<>>]

\* a step of the orchestrator of submission s that touches its row and locals only
SubStep(s, pc, next) ==
    /\ subs[s].pc = pc
    /\ subs' = next
    /\ UNCHANGED <<keyVars, viewVars, storeVars, execVars, compileVars, leaderboard_entries, now,
                   faults>>

\* process_challenge_submission: status "compiling", then submit_compile_job
SubSetCompiling(s) ==
    /\ s \in DOMAIN subs
    /\ LET t == update_challenge_submission_status(subs, s, "compiling", Null, Null, Null, Null)
       IN SubStep(s, "set_compiling", [t EXCEPT ![s].pc = "wait_compile"])

\* wait_for_compile returns Ok(result) or Err (Failed, timeout); on Ok the status
\* becomes "running" with the binary id
SubWaitCompile(s, compiled) ==
    /\ s \in DOMAIN subs
    /\ IF compiled # Null
       THEN LET t == update_challenge_submission_status(subs, s, "running", compiled,
                                                        Null, Null, Null)
            IN SubStep(s, "wait_compile", [t EXCEPT ![s].pc = "test"])
       ELSE SubStep(s, "wait_compile", [subs EXCEPT ![s].pc = "process_failed"])

\* total_instructions taken for the score: the counts are added up
MaxInstructions_Total(max_instructions, instructions) == max_instructions + instructions

\* if exec_result.instructions as i64 > max_instructions { max_instructions = ... }
MaxInstructions(max_instructions, instructions) ==
    IF instructions > max_instructions THEN instructions ELSE max_instructions

\* one turn of the loop over the test cases: submit_job, wait_for_execution,
\* db::get_run_by_job_id, verify_output
SubRunTest(s, exec_result, run_found) ==
    /\ s \in DOMAIN subs
    /\ LET me == subs[s]
           next_pc == IF me.test = Len(TestCases) THEN "final_status" ELSE "test"
           job_id == <<s, me.test>>
       IN IF exec_result = Null
          THEN SubStep(s, "test",
                       [subs EXCEPT
                          ![s].test_results =
                              Append(@, [test_index |-> me.test - 1, passed |-> FALSE,
                                         error |-> Some("Execution failed")]),
                          ![s].all_passed = FALSE, ![s].test = me.test + 1,
                          ![s].pc = next_pc])
          ELSE SubStep(s, "test",
                       [subs EXCEPT
                          ![s].final_run_id =
                              IF run_found THEN Some(<<"run", job_id>>) ELSE @,
                          ![s].all_passed = @ /\ exec_result[1].passed,
                          ![s].max_instructions =
                              MaxInstructions(@, exec_result[1].instructions),
                          ![s].test_results =
                              Append(@, [test_index |-> me.test - 1,
                                         passed |-> exec_result[1].passed,
                                         error |-> Null]),
                          ![s].executions = Append(@, exec_result[1].instructions),
                          ![s].test = me.test + 1,
                          ![s].pc = next_pc])

\* the status taken to be "passed" whatever the tests did
FinalStatus_Passed(all_passed) == "passed"

\* let status = if all_passed { "passed" } else { "failed" }
FinalStatus(all_passed) == IF all_passed THEN "passed" ELSE "failed"

\* the same going on to the leaderboard whenever a Run was found, passed or not
SubFinalStatus_AlwaysLeaderboard(s) ==
    /\ s \in DOMAIN subs
    /\ LET me == subs[s]
           status == FinalStatus(me.all_passed)
           t == update_challenge_submission_status(subs, s, status, Null,
                                                   Some(me.test_results),
                                                   Some(me.max_instructions), Null)
       IN SubStep(s, "final_status",
                  [t EXCEPT ![s] = IF me.final_run_id # Null
                                   THEN [@ EXCEPT !.pc = "leaderboard"]
                                   ELSE Returned(@)])

\* the final update_challenge_submission_status: "passed" or "failed"
SubFinalStatus(s) ==
    /\ s \in DOMAIN subs
    /\ LET me == subs[s]
           status == FinalStatus(me.all_passed)
           t == update_challenge_submission_status(subs, s, status, Null,
                                                   Some(me.test_results),
                                                   Some(me.max_instructions), Null)
       IN SubStep(s, "final_status",
                  [t EXCEPT ![s] = IF me.all_passed /\ me.final_run_id # Null
                                   THEN [@ EXCEPT !.pc = "leaderboard"]
                                   ELSE Returned(@)])

\* if all_passed { if let Some(run_id) = final_run_id { db::update_leaderboard_entry } }
SubUpdateLeaderboard(s) ==
    /\ s \in DOMAIN subs
    /\ subs[s].pc = "leaderboard"
    /\ LET me == subs[s]
       IN leaderboard_entries' =
            update_leaderboard_entry(leaderboard_entries, me.user_id, me.challenge_id,
                                     me.language, me.max_instructions, me.final_run_id[1],
                                     me.source_code, me.is_verified, now)
    /\ now' = now + 1
    /\ subs' = [subs EXCEPT ![s] = Returned(@)]
    /\ UNCHANGED <<keyVars, viewVars, storeVars, execVars, compileVars, faults>>

\* submit_challenge, process_challenge_submission returned Err: status "failed"
SubProcessFailed(s) ==
    /\ s \in DOMAIN subs
    /\ LET t == update_challenge_submission_status(subs, s, "failed", Null, Null, Null,
                                                   Some("error"))
       IN SubStep(s, "process_failed", [t EXCEPT ![s] = Returned(@)])

\* the orchestrator of submission s as it stands before its call of
\* update_leaderboard_entry: every test passed, a Run was found for test t
PendingUpsert(s, user, is_verified, max_instructions, t) ==
    [user_id |-> user, challenge_id |-> ChallengeId, language |-> ChallengeLanguage,
     source_code |-> <<"source", s>>, is_verified |-> is_verified,
     status |-> "passed", binary_id |-> Some(compute_binary_id(<<1>>)),
     instructions |-> Some(max_instructions),
     test_results_json |-> Some([i \in DOMAIN TestCases |->
                                   [test_index |-> i - 1, passed |-> TRUE, error |-> Null]]),
     error_message |-> Null, completed_at |-> 1,
     pc |-> "leaderboard", test |-> Len(TestCases) + 1,
     test_results |-> [i \in DOMAIN TestCases |->
                         [test_index |-> i - 1, passed |-> TRUE, error |-> Null]],
     all_passed |-> TRUE,
     max_instructions |-> max_instructions, final_run_id |-> Some(<<"run", <<s, t>>>>),
     executions |-> [i \in DOMAIN TestCases |-> max_instructions]]

\* up to MaxSubs submissions, all about to call update_leaderboard_entry
PendingUpserts ==
    UNION {{rows \in [1..n -> UNION {{PendingUpsert(s, user, is_verified, m, t) :
                                        user \in Users, is_verified \in BOOLEAN,
                                        m \in {3, 5}, t \in DOMAIN TestCases} :
                                     s \in 1..n}] :
                \A s \in 1..n : rows[s].source_code = <<"source", s>>} :
           n \in 1..MaxSubs}

\* the row of a submission as submit_challenge has created it
PendingSubmission(user, is_verified) ==
    [user_id |-> user, challenge_id |-> ChallengeId, language |-> ChallengeLanguage,
     source_code |-> <<"source", 1>>, is_verified |-> is_verified,
     status |-> "pending", binary_id |-> Null, instructions |-> Null,
     test_results_json |-> Null, error_message |-> Null, completed_at |-> 0,
     pc |-> "set_compiling", test |-> 1, test_results |-> <<>>, all_passed |-> TRUE,
     max_instructions |-> 0, final_run_id |-> Null, executions |-> <<>>]

\* process_challenge_submission on one submission
OrchestratorNext ==
    \/ SubSetCompiling(1)
    \/ \E compiled \in {Null, Some(compute_binary_id(<<1>>))} : SubWaitCompile(1, compiled)
    \/ \E exec_result \in ExecOutcomes, run_found \in BOOLEAN :
            SubRunTest(1, exec_result, run_found)
    \/ SubFinalStatus(1)
    \/ SubUpdateLeaderboard(1)
    \/ SubProcessFailed(1)

\* the calls of update_leaderboard_entry, in any order
LeaderboardNext == \E s \in 1..MaxSubs : SubUpdateLeaderboard(s)

SubNext ==
    \/ \E user \in Users, is_verified \in BOOLEAN : submit_challenge(user, is_verified)
    \/ \E s \in 1..MaxSubs : SubSetCompiling(s)
    \/ \E s \in 1..MaxSubs, compiled \in {Null, Some(compute_binary_id(<<1>>))} :
            SubWaitCompile(s, compiled)
    \/ \E s \in 1..MaxSubs, exec_result \in ExecOutcomes, run_found \in BOOLEAN :
            SubRunTest(s, exec_result, run_found)
    \/ \E s \in 1..MaxSubs : SubFinalStatus(s)
    \/ \E s \in 1..MaxSubs : SubUpdateLeaderboard(s)
    \/ \E s \in 1..MaxSubs : SubProcessFailed(s)

(***************************************************************************)
(* The binary store on its own: uploads through POST /submit, clients of   *)
(* PUT /binaries/:id, and the janitor.                                     *)
(***************************************************************************)
\* a client calls PUT /binaries/:id
ClientPutBinary(binary_id, body, query) ==
    /\ store_binary(binary_id, body, query)
    /\ UNCHANGED <<keyVars, viewVars, subVars, execVars, compileVars, faults>>

StoreNext ==
    \/ \E bin \in Blobs : submit(bin)
    \/ \E binary_id \in BinaryIds, body \in Blobs, query \in StoreBinaryQueries :
            ClientPutBinary(binary_id, body, query)
    \/ \E n \in 1..MaxJobs : Janitor(n)

(***************************************************************************)
(* verify_output (challenges.rs) on its own.  A string is the sequence of  *)
(* its bytes: 97 "a", 98 "b", 32 " ", 10 "\n".                             *)
(***************************************************************************)
MaxLen == 2         \* length of the enumerated outputs

Chars == {97, 98, 32, 10}

\* "b\na\n", "a\nb\n" and " a \n b\n"
LinesBA == <<98, 10, 97, 10>>
LinesAB == <<97, 10, 98, 10>>
LinesPadded == <<32, 97, 32, 10, 32, 98, 10>>

\* the strings verify_output is called on
Outputs == UNION {[1..n -> Chars] : n \in 0..MaxLen} \cup {LinesBA, LinesAB, LinesPadded}

VerifyModes == {"Exact", "Trimmed", "Sorted"}

\* char::is_whitespace on the ASCII range
WhiteSpace == {9, 10, 11, 12, 13, 32}

RECURSIVE LinesFrom(_, _, _)
\* the lines of s, cur being the part of the current line read so far
LinesFrom(s, cur, out) ==
    IF s = <<>> THEN (IF cur = <<>> THEN out ELSE Append(out, cur))
    ELSE IF Head(s) = 10
         THEN LinesFrom(Tail(s),
                        <<>>,
                        Append(out, IF cur # <<>> /\ cur[Len(cur)] = 13
                                    THEN SubSeq(cur, 1, Len(cur) - 1) ELSE cur))
         ELSE LinesFrom(Tail(s), Append(cur, Head(s)), out)

\* str::lines: split at "\n", a final empty line is not a line, a trailing "\r"
\* of a line is dropped
lines(s) == LinesFrom(s, <<>>, <<>>)

RECURSIVE trim_start(_)
trim_start(l) ==
    IF l # <<>> /\ Head(l) \in WhiteSpace THEN trim_start(Tail(l)) ELSE l

RECURSIVE trim_end(_)
trim_end(l) ==
    IF l # <<>> /\ l[Len(l)] \in WhiteSpace THEN trim_end(SubSeq(l, 1, Len(l) - 1)) ELSE l

\* a line left as it is
trim_Identity(l) == l

\* str::trim
trim(l) == trim_end(trim_start(l))

RECURSIVE InsertLine(_, _)
InsertLine(l, sorted) ==
    IF sorted = <<>> THEN <<l>>
    ELSE IF BytesLess(l, Head(sorted)) THEN <<l>> \o sorted
    ELSE <<Head(sorted)>> \o InsertLine(l, Tail(sorted))

RECURSIVE SortFrom(_, _)
SortFrom(v, sorted) ==
    IF v = <<>> THEN sorted ELSE SortFrom(Tail(v), InsertLine(Head(v), sorted))

\* Vec<&str>::sort
sort(v) == SortFrom(v, <<>>)

\* actual.lines().map(|l| l.trim()).collect()
TrimmedLines(s) == LET ls == lines(s) IN [i \in DOMAIN ls |-> trim(ls[i])]

\* fn verify_output(actual, expected, mode) -> bool
verify_output(actual, expected, mode) ==
    CASE mode = "Exact" -> actual = expected
      [] mode = "Trimmed" -> TrimmedLines(actual) = TrimmedLines(expected)
      [] mode = "Sorted" -> sort(TrimmedLines(actual)) = sort(TrimmedLines(expected))

\* one call of verify_output
VerifyCall ==
    /\ verify.returned = Null
    /\ verify' = [verify EXCEPT
                    !.returned = Some(verify_output(verify.actual, verify.expected,
                                                    verify.mode))]
    /\ UNCHANGED <<keyVars, storeVars, execVars, compileVars, subVars, judge, board, rate, stats, direct, submitting, faults>>

VerifyNext == VerifyCall

(***************************************************************************)
(* One test case of a submission, from the sandbox to the status response  *)
(* (worker/main.rs execute_sandbox, challenges.rs).  Two challenges that   *)
(* differ in the expected_stdout of the test case only are judged side by  *)
(* side on the same execution.                                             *)
(***************************************************************************)
PREVIEW_LEN == 50

\* what the submitted program prints
Printed == UNION {[1..n -> Chars] : n \in 0..1}

\* the ASCII code of the i-th character of the standard base64 alphabet
B64Char(i) ==
    IF i < 26 THEN 65 + i
    ELSE IF i < 52 THEN 97 + (i - 26)
    ELSE IF i < 62 THEN 48 + (i - 52)
    ELSE IF i = 62 THEN 43 ELSE 47

RECURSIVE BASE64_encode(_)
\* base64::engine::general_purpose::STANDARD.encode
BASE64_encode(bytes) ==
    IF bytes = <<>> THEN <<>>
    ELSE IF Len(bytes) = 1
         THEN LET n == bytes[1] * 65536
              IN <<B64Char(n \div 262144), B64Char((n \div 4096) % 64), ByteEq, ByteEq>>
    ELSE IF Len(bytes) = 2
         THEN LET n == bytes[1] * 65536 + bytes[2] * 256
              IN <<B64Char(n \div 262144), B64Char((n \div 4096) % 64),
                   B64Char((n \div 64) % 64), ByteEq>>
    ELSE LET n == bytes[1] * 65536 + bytes[2] * 256 + bytes[3]
         IN <<B64Char(n \div 262144), B64Char((n \div 4096) % 64),
              B64Char((n \div 64) % 64), B64Char(n % 64)>>
            \o BASE64_encode(SubSeq(bytes, 4, Len(bytes)))

\* the expected_stdout a challenge author may have written for the test case
ExpectedStdouts == Printed \cup {BASE64_encode(o) : o \in Printed}

\* fn truncate_preview(s, max_len)
truncate_preview(s, max_len) ==
    IF Len(s) <= max_len THEN s ELSE SubSeq(s, 1, max_len) \o <<46, 46, 46>>

\* execute_sandbox returned Ok: the worker stores the ExecutionResult, the job
\* is Completed and wait_for_execution hands the result to the orchestrator
execute_sandbox(output, exit_code) ==
    /\ judge.pc = "sandbox"
    /\ judge' = [judge EXCEPT
                    !.printed = Some(output),
                    !.exec_result = Some([stdout |-> BASE64_encode(output),
                                          exit_code |-> exit_code]),
                    !.pc = "test"]
    /\ UNCHANGED <<keyVars, storeVars, execVars, compileVars, subVars, verify, board, rate, stats, direct, submitting, faults>>

\* execute_sandbox returned Err: the job is Failed, wait_for_execution returns Err
execute_sandbox_Err ==
    /\ judge.pc = "sandbox"
    /\ judge' = [judge EXCEPT !.pc = "test"]
    /\ UNCHANGED <<keyVars, storeVars, execVars, compileVars, subVars, verify, board, rate, stats, direct, submitting, faults>>

\* the TestResult process_challenge_submission pushes for the test case
TestResultOf(exec_result, expected_stdout, verify_mode) ==
    IF exec_result = Null
    THEN [test_index |-> 0, passed |-> FALSE,
          expected_preview |-> Some(truncate_preview(expected_stdout, PREVIEW_LEN)),
          actual_preview |-> Null, error |-> Some("Execution failed")]
    ELSE LET actual_output == exec_result[1].stdout
         IN [test_index |-> 0,
             passed |-> verify_output(actual_output, expected_stdout, verify_mode),
             expected_preview |-> Some(truncate_preview(expected_stdout, PREVIEW_LEN)),
             actual_preview |-> Some(truncate_preview(actual_output, PREVIEW_LEN)),
             error |-> IF exec_result[1].exit_code # 0 THEN Some("Exit code") ELSE Null]

\* process_challenge_submission, the body of the loop over the test cases and the
\* final update of the submission row, for each of the two challenges
JudgeTestCase ==
    /\ judge.pc = "test"
    /\ judge' = [judge EXCEPT
                    !.compared = IF judge.exec_result = Null THEN Null
                                 ELSE Some(judge.exec_result[1].stdout),
                    !.rows = [c \in 1..2 |->
                                LET t == TestResultOf(judge.exec_result, judge.expected[c],
                                                      judge.verify_mode)
                                IN [status |-> IF t.passed THEN "passed" ELSE "failed",
                                    test_results |-> Some(<<t>>)]],
                    !.pc = "status"]
    /\ UNCHANGED <<keyVars, storeVars, execVars, compileVars, subVars, verify, board, rate, stats, direct, submitting, faults>>

\* GET /challenges/:id/submissions/:submission_id, for each of the two challenges
get_submission_status ==
    /\ judge.pc = "status"
    /\ judge' = [judge EXCEPT
                    !.status_responses =
                        Some([c \in 1..2 |-> [status |-> judge.rows[c].status,
                                              test_results |-> judge.rows[c].test_results]]),
                    !.pc = "done"]
    /\ UNCHANGED <<keyVars, storeVars, execVars, compileVars, subVars, verify, board, rate, stats, direct, submitting, faults>>

\* GET /challenges/:id, for each of the two challenges: PublicTestCase keeps
\* description and stdin of a test case
get_challenge ==
    /\ judge.detail_responses = Null
    /\ judge' = [judge EXCEPT
                    !.detail_responses =
                        Some([c \in 1..2 |->
                                [verify_mode |-> judge.verify_mode,
                                 test_cases |-> <<[description |-> Null, stdin |-> <<>>]>>]])]
    /\ UNCHANGED <<keyVars, storeVars, execVars, compileVars, subVars, verify, board, rate, stats, direct, submitting, faults>>

JudgeNext ==
    \/ \E output \in Printed, exit_code \in {0, 1} : execute_sandbox(output, exit_code)
    \/ execute_sandbox_Err
    \/ JudgeTestCase
    \/ get_submission_status
    \/ get_challenge

(***************************************************************************)
(* Leaderboard queries (db.rs get_challenge_leaderboard and                *)
(* get_global_leaderboard, with user_type = None) on a table               *)
(* leaderboard_entries of two challenges.                                  *)
(***************************************************************************)
MAX_LIMIT == 500

\* the (challenge_id, language) pairs that have entries
BoardSlots == {<<"ch", "c">>, <<"ch", "go">>, <<"ch2", "c">>}

BoardKeys == {<<u, slot[1], slot[2]>> : u \in Users, slot \in BoardSlots}

\* the tables leaderboard_entries: a row per key of some set of keys
BoardTables ==
    UNION {{[k \in K |-> [instructions |-> t[k], run_id |-> <<"run", k>>,
                          source_code |-> <<"source", k>>, is_verified |-> FALSE,
                          created_at |-> 1]] : t \in [K -> {2, 3}]} :
           K \in SUBSET BoardKeys}

\* the bytes of a language name, compared as text by ORDER BY le.language
LanguageBytes(language) == IF language = "c" THEN <<99>> ELSE <<103, 111>>

\* the limit query parameters
LimitParams == {1, 2, 1000}

\* i64::min
min(a, b) == IF a <= b THEN a ELSE b

\* the orders in which a query may return the rows of S under ORDER BY: <<a, b>> is
\* in before when a sorts before b; rows that tie come in any order
OrderedBy(S, before) ==
    {p \in [1..Cardinality(S) -> S] :
        /\ \A i, j \in DOMAIN p : i # j => p[i] # p[j]
        /\ \A i, j \in DOMAIN p : i < j => <<p[j], p[i]>> \notin before}

\* ORDER BY le.language, le.instructions ASC
ByLanguageThenInstructions(tbl, a, b) ==
    \/ BytesLess(LanguageBytes(a[3]), LanguageBytes(b[3]))
    \/ a[3] = b[3] /\ tbl[a].instructions < tbl[b].instructions

\* ORDER BY le.instructions ASC
ByInstructions(tbl, a, b) == tbl[a].instructions < tbl[b].instructions

\* db::get_challenge_leaderboard: the row sets the SELECT may return.  With a
\* language: ROW_NUMBER() OVER (ORDER BY le.instructions ASC) ... ORDER BY
\* le.instructions ASC LIMIT; without: ROW_NUMBER() OVER (PARTITION BY le.language
\* ORDER BY le.instructions ASC) ... ORDER BY le.language, le.instructions ASC LIMIT
db_get_challenge_leaderboard(tbl, challenge_id, language, limit) ==
    LET matching == {k \in DOMAIN tbl :
                        k[2] = challenge_id /\ (language = Null \/ k[3] = language[1])}
        before == {ab \in matching \X matching :
                      IF language = Null
                      THEN ByLanguageThenInstructions(tbl, ab[1], ab[2])
                      ELSE ByInstructions(tbl, ab[1], ab[2])}
        Entry(p, i) ==
            [rank |-> IF language = Null
                      THEN Cardinality({j \in 1..i : p[j][3] = p[i][3]})
                      ELSE i,
             user |-> p[i][1], instructions |-> tbl[p[i]].instructions,
             language |-> p[i][3]]
    IN {[i \in 1..min(limit, Len(p)) |-> Entry(p, i)] : p \in OrderedBy(matching, before)}

\* GET /challenges/:id/leaderboard: limit is query.limit.min(500)
get_challenge_leaderboard(challenge_id, language, limit) ==
    /\ \E rows \in db_get_challenge_leaderboard(leaderboard_entries, challenge_id, language,
                                                min(limit, MAX_LIMIT)) :
          board' = [query |-> "challenge", challenge_id |-> challenge_id,
                    language |-> language, limit |-> limit, rows |-> rows]
    /\ UNCHANGED <<keyVars, storeVars, execVars, compileVars, subVars, verify, judge, rate, stats, direct, submitting, faults>>

\* SELECT MIN(le2.instructions) FROM leaderboard_entries le2 WHERE le2.challenge_id =
\* le.challenge_id AND le2.language = le.language
MinInstructions(tbl, le) ==
    LET counts == {tbl[k].instructions : k \in {k2 \in DOMAIN tbl : k2[2] = le[2] /\ k2[3] = le[3]}}
    IN CHOOSE m \in counts : \A c \in counts : m <= c

\* (a::float / b::float * 1000)::bigint: the cast of a float to bigint rounds to
\* the nearest integer, a tie to the even one
ScaledRatio(a, b) ==
    LET q == (a * 1000) \div b
        r == (a * 1000) % b
    IN IF 2 * r > b \/ (2 * r = b /\ q % 2 = 1) THEN q + 1 ELSE q

\* the CASE of total_score for the entry le
ScoreOf(tbl, le) ==
    IF tbl[le].instructions = MinInstructions(tbl, le) THEN 1000
    ELSE ScaledRatio(MinInstructions(tbl, le), tbl[le].instructions)

RECURSIVE SumScores(_, _)
\* SUM(CASE ...) over the entries les
SumScores(tbl, les) ==
    IF les = {} THEN 0
    ELSE LET le == CHOOSE k \in les : TRUE
         IN ScoreOf(tbl, le) + SumScores(tbl, les \ {le})

\* the CTE user_scores: GROUP BY le.user_id
user_scores(tbl) ==
    [u \in {k[1] : k \in DOMAIN tbl} |->
        LET les == {k \in DOMAIN tbl : k[1] = u}
        IN [total_score |-> SumScores(tbl, les),
            challenges_completed |-> Cardinality({k[2] : k \in les}),
            first_places |->
                Cardinality({k \in les : tbl[k].instructions = MinInstructions(tbl, k)})]]

\* db::get_global_leaderboard: ROW_NUMBER() OVER (ORDER BY us.total_score DESC) ...
\* ORDER BY us.total_score DESC LIMIT
db_get_global_leaderboard(tbl, limit) ==
    LET us == user_scores(tbl)
        before == {ab \in (DOMAIN us) \X (DOMAIN us) :
                      us[ab[1]].total_score > us[ab[2]].total_score}
    IN {[i \in 1..min(limit, Len(p)) |->
            [rank |-> i, user |-> p[i], total_score |-> us[p[i]].total_score,
             challenges_completed |-> us[p[i]].challenges_completed,
             first_places |-> us[p[i]].first_places]] : p \in OrderedBy(DOMAIN us, before)}

\* GET /leaderboard: limit is query.limit.min(500)
get_global_leaderboard(limit) ==
    /\ \E rows \in db_get_global_leaderboard(leaderboard_entries, min(limit, MAX_LIMIT)) :
          board' = [query |-> "global", challenge_id |-> Null, language |-> Null,
                    limit |-> limit, rows |-> rows]
    /\ UNCHANGED <<keyVars, storeVars, execVars, compileVars, subVars, verify, judge, rate, stats, direct, submitting, faults>>

BoardNext ==
    \/ \E challenge_id \in {"ch", "ch2"}, language \in {Null, Some("c"), Some("go")},
          limit \in LimitParams : get_challenge_leaderboard(challenge_id, language, limit)
    \/ \E limit \in LimitParams : get_global_leaderboard(limit)

(***************************************************************************)
(* Rate limits (db.rs check_rate_limit): table rate_limits with primary    *)
(* key (user_id, window_start).  The clock counts minutes, so a timestamp  *)
(* truncated to the minute is the clock value itself.  A call is two       *)
(* steps, the upsert statement and the comparison of the count it          *)
(* returned, and calls interleave between the two.                         *)
(***************************************************************************)
MaxCalls == 3       \* calls of check_rate_limit in one run
MaxMinute == 1      \* minutes the clock advances

\* a u32 is written as its two 16-bit halves: the value is hi * 2^16 + lo
U32(hi, lo) == [hi |-> hi, lo |-> lo]

\* values of config.rate_limit_per_minute, a u32: 1, 2, 2^31 and 2^32 - 1
LimitsPerMinute == {U32(0, 1), U32(0, 2), U32(32768, 0), U32(65535, 65535)}

\* `as i32` of a u32: the same 32 bits read in two's complement
as_i32(n) == (IF n.hi >= 32768 THEN n.hi - 65536 ELSE n.hi) * 65536 + n.lo

\* INSERT ... VALUES ($1, $2, 1) ON CONFLICT (user_id, window_start)
\* DO UPDATE SET count = rate_limits.count + 1: the table after the statement
rate_limits_upsert(tbl, key) ==
    IF key \in DOMAIN tbl
    THEN [tbl EXCEPT ![key] = @ + 1]
    ELSE [k \in DOMAIN tbl \cup {key} |-> IF k = key THEN 1 ELSE tbl[k]]

\* a call starts: window_start is Utc::now() truncated to the minute
check_rate_limit_begin(user_id) ==
    /\ Len(rate.calls) < MaxCalls
    /\ rate' = [rate EXCEPT !.calls = Append(@, [user_id |-> user_id,
                                                 window_start |-> rate.now,
                                                 pc |-> "query", count |-> 0,
                                                 returned |-> Null])]
    /\ UNCHANGED <<keyVars, storeVars, execVars, compileVars, subVars, verify, judge, board, stats, direct, submitting, faults>>

\* the statement runs, atomically, and returns the count; a failed
\* statement changes nothing and the call returns DatabaseError
check_rate_limit_query(c, ok) ==
    /\ rate.calls[c].pc = "query"
    /\ Fault(~ok)
    /\ LET key == <<rate.calls[c].user_id, rate.calls[c].window_start>>
           tbl == rate_limits_upsert(rate.table, key)
       IN  rate' = IF ok
                   THEN [rate EXCEPT !.table = tbl,
                                     !.calls[c].count = tbl[key],
                                     !.calls[c].pc = "check"]
                   ELSE [rate EXCEPT !.calls[c].returned = Some("DatabaseError"),
                                     !.calls[c].pc = "done"]
    /\ UNCHANGED <<keyVars, storeVars, execVars, compileVars, subVars, verify, judge, board, stats, direct,
                   submitting>>

\* if count > limit_per_minute as i32 { return Err(RateLimited) } Ok(())
check_rate_limit_return(c) ==
    /\ rate.calls[c].pc = "check"
    /\ rate' = [rate EXCEPT
                  !.calls[c].returned =
                      Some(IF rate.calls[c].count > as_i32(rate.limit_per_minute)
                           THEN "RateLimited" ELSE "Ok"),
                  !.calls[c].pc = "done"]
    /\ UNCHANGED <<keyVars, storeVars, execVars, compileVars, subVars, verify, judge, board, stats, direct, submitting, faults>>

\* a minute passes
RateTick ==
    /\ rate.now < MaxMinute
    /\ rate' = [rate EXCEPT !.now = @ + 1]
    /\ UNCHANGED <<keyVars, storeVars, execVars, compileVars, subVars, verify, judge, board, stats, direct, submitting, faults>>

RateNext ==
    \/ \E user_id \in Users : check_rate_limit_begin(user_id)
    \/ \E c \in DOMAIN rate.calls, ok \in BOOLEAN : check_rate_limit_query(c, ok)
    \/ \E c \in DOMAIN rate.calls : check_rate_limit_return(c)
    \/ RateTick

(***************************************************************************)
(* The loop over the test cases of process_challenge_submission, step by   *)
(* step, over the execute pipeline: each turn submits an execute job,      *)
(* polls its metadata in wait_for_execution and records a TestResult,      *)
(* while the execute workers handle the jobs.                              *)
(***************************************************************************)
\* the id of the execute job of test case t of submission s (Uuid::new_v4())
JobOf(s, t) == MaxJobs + (s - 1) * Len(TestCases) + t

\* db::get_run_by_job_id: SELECT ... FROM runs WHERE job_id = $1
db_get_run_by_job_id(tbl, job_id) ==
    IF \E i \in DOMAIN tbl : tbl[i].job_id = job_id
    THEN Some(tbl[CHOOSE i \in DOMAIN tbl : tbl[i].job_id = job_id])
    ELSE Null

\* the turn of the loop ends with a TestResult pushed: on to the next test case,
\* or out of the loop after the last
EndTurn(s, row) ==
    [row EXCEPT !.test = @ + 1,
                !.pc = IF row.test = Len(TestCases) THEN "final_status" ELSE "test"]

\* the same with break in the place of continue: the loop ends at the failure
PollFailed_Break(s, row, e) ==
    [row EXCEPT !.test_results =
                    Append(@, [test_index |-> row.test - 1, passed |-> FALSE,
                               error |-> Some(<<"Execution failed", e>>)]),
                !.all_passed = FALSE, !.test = @ + 1, !.pc = "final_status"]

\* the same without all_passed = false
PollFailed_StillPassing(s, row, e) ==
    EndTurn(s, [row EXCEPT !.test_results =
                               Append(@, [test_index |-> row.test - 1, passed |-> FALSE,
                                          error |-> Some(<<"Execution failed", e>>)])])

\* Err(e) of wait_for_execution: push a failed TestResult with the error
\* "Execution failed: {e}", all_passed = false, continue
PollFailed(s, row, e) ==
    EndTurn(s, [row EXCEPT !.test_results =
                               Append(@, [test_index |-> row.test - 1, passed |-> FALSE,
                                          error |-> Some(<<"Execution failed", e>>)]),
                           !.all_passed = FALSE])

\* the loop without wait_for_execution: the job is submitted and the turn ends
RunSubmitJob_NoWait(s, ok) ==
    /\ s \in DOMAIN subs
    /\ subs[s].pc = "test"
    /\ Fault(~ok)
    /\ IF ok
       THEN /\ submit_job([id |-> JobOf(s, subs[s].test), binary_id |-> subs[s].binary_id[1],
                            network_enabled |-> Challenges[subs[s].challenge_id].network_enabled])
            /\ subs' = [subs EXCEPT ![s] = EndTurn(s, @)]
       ELSE /\ subs' = [subs EXCEPT ![s].pc = "process_failed"]
            /\ UNCHANGED <<jobs_kv, jobs_stream>>
    /\ UNCHANGED <<keyVars, viewVars, storeVars, compileVars, results_kv, runs, ew,
                   leaderboard_entries, now>>

\* top of a turn: queue.submit_job(job).await?
RunSubmitJob(s, ok) ==
    /\ s \in DOMAIN subs
    /\ subs[s].pc = "test"
    /\ Fault(~ok)
    /\ IF ok
       THEN /\ submit_job([id |-> JobOf(s, subs[s].test), binary_id |-> subs[s].binary_id[1],
                            network_enabled |-> Challenges[subs[s].challenge_id].network_enabled])
            /\ subs' = [subs EXCEPT ![s].pc = "poll"]
       ELSE /\ subs' = [subs EXCEPT ![s].pc = "process_failed"]
            /\ UNCHANGED <<jobs_kv, jobs_stream>>
    /\ UNCHANGED <<keyVars, viewVars, storeVars, compileVars, results_kv, runs, ew,
                   leaderboard_entries, now>>

\* wait_for_execution: start.elapsed() > timeout, Err(Timeout); the job is left
\* as it is
RunPollTimeout(s) ==
    /\ s \in DOMAIN subs
    /\ SubStep(s, "poll", [subs EXCEPT ![s] = PollFailed(s, @, "Timeout")])

\* wait_for_execution reads the metadata: Failed is Err, Completed with a result
\* is Ok(result), a failed KV read is Err; then get_run_by_job_id and
\* verify_output, whose answer is passed
RunPollStatus(s, kv_ok, passed) ==
    /\ s \in DOMAIN subs
    /\ subs[s].pc = "poll"
    /\ Fault(~kv_ok)
    /\ LET me == subs[s]
           job_id == JobOf(s, me.test)
           run == db_get_run_by_job_id(runs, job_id)
       IN IF ~kv_ok \/ jobs_kv[job_id].status = "Failed"
          THEN subs' = [subs EXCEPT ![s] =
                           PollFailed(s, @, IF kv_ok THEN "Internal" ELSE "QueueError")]
          ELSE /\ jobs_kv[job_id].status = "Completed"
               /\ job_id \in DOMAIN results_kv
               /\ subs' = [subs EXCEPT ![s] =
                    EndTurn(s, [@ EXCEPT
                        !.final_run_id = IF run # Null THEN Some(<<"run", run[1].id>>) ELSE @,
                        !.all_passed = @ /\ passed,
                        !.max_instructions =
                            MaxInstructions(@, results_kv[job_id].instructions),
                        !.test_results =
                            Append(@, [test_index |-> me.test - 1, passed |-> passed,
                                       error |-> Null]),
                        !.executions = Append(@, results_kv[job_id].instructions)])]
    /\ UNCHANGED <<keyVars, viewVars, storeVars, execVars, compileVars, leaderboard_entries, now>>

\* one submission running its test cases, and the execute workers
RunNext ==
    \/ \E ok \in BOOLEAN : RunSubmitJob(1, ok)
    \/ RunPollTimeout(1)
    \/ \E kv_ok \in BOOLEAN, passed \in BOOLEAN : RunPollStatus(1, kv_ok, passed)
    \/ SubFinalStatus(1)
    \/ SubUpdateLeaderboard(1)
    \/ SubProcessFailed(1)
    \/ \E j \in DOMAIN jobs_stream : JobsAckWaitExpires(j)
    \/ \E w \in ExecWorkers, j \in DOMAIN jobs_stream : ExecFetch(w, j)
    \/ \E w \in ExecWorkers, network_ok \in BOOLEAN, kv_ok \in BOOLEAN :
            ExecFetchBinary(w, network_ok, kv_ok)
    \/ \E w \in ExecWorkers, ok \in BOOLEAN : ExecSetRunning(w, ok)
    \/ \E w \in ExecWorkers, result \in SandboxResults : ExecSandboxOk(w, result)
    \/ \E w \in ExecWorkers : ExecSandboxErr(w)
    \/ \E w \in ExecWorkers, ok \in BOOLEAN : ExecStoreResult(w, ok)
    \/ \E w \in ExecWorkers, ok \in BOOLEAN : ExecPersistRun(w, ok)
    \/ \E w \in ExecWorkers, ok \in BOOLEAN : ExecSetCompleted(w, ok)
    \/ \E w \in ExecWorkers, ok \in BOOLEAN : ExecSetFailed(w, ok)
    \/ \E w \in ExecWorkers, ok \in BOOLEAN : ExecAck(w, ok)

(***************************************************************************)
(* The two pipelines side by side: the metadata of the execute jobs in     *)
(* jobs_kv and of the compile jobs in compiles_kv.                         *)
(***************************************************************************)
\* one execute worker and one compile worker, each on the jobs of its stream
PipelinesNext ==
    \/ \E bin \in Blobs : submit(bin)
    \/ \E bid \in BinaryIds : submit_by_id(bid)
    \/ \E source \in PipelineSources : compile(source)
    \/ \E j \in DOMAIN jobs_stream : JobsAckWaitExpires(j)
    \/ \E j \in DOMAIN compiles_stream : CompilesAckWaitExpires(j)
    \/ \E j \in DOMAIN jobs_stream : ExecFetch("w1", j)
    \/ \E network_ok \in BOOLEAN, kv_ok \in BOOLEAN : ExecFetchBinary("w1", network_ok, kv_ok)
    \/ \E ok \in BOOLEAN : ExecSetRunning("w1", ok)
    \/ \E result \in SandboxResults : ExecSandboxOk("w1", result)
    \/ ExecSandboxErr("w1")
    \/ \E ok \in BOOLEAN : ExecStoreResult("w1", ok)
    \/ \E ok \in BOOLEAN : ExecPersistRun("w1", ok)
    \/ \E ok \in BOOLEAN : ExecSetCompleted("w1", ok)
    \/ \E ok \in BOOLEAN : ExecSetFailed("w1", ok)
    \/ \E ok \in BOOLEAN : ExecAck("w1", ok)
    \/ \E j \in DOMAIN compiles_stream : CompileFetch("c1", j)
    \/ CompileCheckCache("c1")
    \/ \E ok \in BOOLEAN : CompilePutResult("c1", ok)
    \/ \E ok \in BOOLEAN : CompileSetCompiling("c1", ok)
    \/ CompileSourceOk("c1")
    \/ CompileSourceErr("c1")
    \/ \E outcome \in UploadOutcomes : CompileUpload("c1", outcome)
    \/ \E ok \in BOOLEAN : CompileCachePut("c1", ok)
    \/ \E ok \in BOOLEAN : CompileSetCompleted("c1", ok)
    \/ \E ok \in BOOLEAN : CompileSetFailed("c1", ok)
    \/ \E ok \in BOOLEAN : CompileAck("c1", ok)

(***************************************************************************)
(* The plugin statistics at the end of the captured stderr (worker/main.rs *)
(* execute_sandbox; api/sandbox.rs execute has the same code).  Bytes:     *)
(* 10 "\n", 123 "{", 125 "}", 101 "e".                                     *)
(***************************************************************************)
ByteLf == 10
ByteOpen == 123
ByteClose == 125

\* the statistics kept here of PluginStats: the fields without #[serde(default)]
ZeroStats == [instructions |-> 0, memory_peak_kb |-> 0, limit_reached |-> FALSE]

\* the values the parser is asked about: one decimal digit per number
StatsValues == [instructions : 0..9, memory_peak_kb : 0..9, limit_reached : BOOLEAN]

\* the JSON text {"instructions":N,"memory_peak_kb":M,"limit_reached":B}
StatsJson(v) ==
    <<123, 34, 105, 110, 115, 116, 114, 117, 99, 116, 105, 111, 110, 115, 34, 58>>
    \o <<48 + v.instructions>>
    \o <<44, 34, 109, 101, 109, 111, 114, 121, 95, 112, 101, 97, 107, 95, 107, 98, 34, 58>>
    \o <<48 + v.memory_peak_kb>>
    \o <<44, 34, 108, 105, 109, 105, 116, 95, 114, 101, 97, 99, 104, 101, 100, 34, 58>>
    \o (IF v.limit_reached THEN <<116, 114, 117, 101>> ELSE <<102, 97, 108, 115, 101>>)
    \o <<125>>

\* serde_json::from_slice::<PluginStats>: Some(stats) for the text of a stats
\* object, Null (Err) for anything else
serde_json_from_slice(bytes) ==
    IF \E v \in StatsValues : bytes = StatsJson(v)
    THEN Some(CHOOSE v \in StatsValues : bytes = StatsJson(v))
    ELSE Null

\* the last lines a captured stderr may end with: two stats objects, an object
\* without the required fields ({"instructions":7}), a line in braces that is
\* not JSON ({e}), the empty object, a line of text
LastLines ==
    {StatsJson([instructions |-> 7, memory_peak_kb |-> 1, limit_reached |-> FALSE]),
     StatsJson([instructions |-> 9, memory_peak_kb |-> 2, limit_reached |-> TRUE]),
     <<123, 34, 105, 110, 115, 116, 114, 117, 99, 116, 105, 111, 110, 115, 34, 58, 55, 125>>,
     <<123, 101, 125>>, <<123, 125>>, <<101>>}

\* what the program wrote before: nothing, text, text and an earlier line in braces
StderrPrefixes == {<<>>, <<101>>, <<101, 10>>, <<101, 10, 123, 101, 125>>}

\* what follows the last line: nothing, one newline, two newlines, more text
StderrSuffixes == {<<>>, <<10>>, <<10, 10>>, <<10, 101>>}

\* the captured stderr: the last line on its own, or after a newline
Stderrs ==
    {prefix \o sep \o line \o suffix :
        prefix \in StderrPrefixes, sep \in {<<>>, <<10>>},
        line \in LastLines \cup {<<>>}, suffix \in StderrSuffixes}

\* STATS_REGEX = \n(\{[^\n]+\})\n?$ on bytes, leftmost match: Some of the span
\* of capture group 1 (start as the 0-based offset Match::start gives, end as
\* the position of the closing brace), Null without a match
STATS_REGEX_captures(s) ==
    LET n == Len(s)
        ends == {n} \cup (IF n > 0 /\ s[n] = ByteLf THEN {n - 1} ELSE {})
        matches == {m \in (1..n) \X ends :
                      /\ m[1] + 3 <= m[2]
                      /\ s[m[1]] = ByteLf
                      /\ s[m[1] + 1] = ByteOpen
                      /\ s[m[2]] = ByteClose
                      /\ \A k \in (m[1] + 2)..(m[2] - 1) : s[k] # ByteLf}
    IN IF matches = {} THEN Null
       ELSE LET m == CHOOSE m \in matches : \A o \in matches : m[1] <= o[1]
            IN Some([start |-> m[1], end |-> m[2]])

\* the stderr cut at the opening brace: the leading newline stays
stderr_truncate_AtMatch(stderr, json_match) == SubSeq(stderr, 1, json_match.start)

\* stderr.truncate(json_match.start() - 1)
stderr_truncate(stderr, json_match) == SubSeq(stderr, 1, json_match.start - 1)

\* execute_sandbox from "Parse plugin stats from stderr" on: the statistics and
\* the stderr of the ExecutionResult, BASE64.encode(&stderr)
parse_plugin_stats(stderr) ==
    LET captures == STATS_REGEX_captures(stderr)
    IN IF captures # Null
       THEN LET json_match == captures[1]
                parsed == serde_json_from_slice(
                              SubSeq(stderr, json_match.start + 1, json_match.end))
            IN [stats |-> IF parsed # Null THEN parsed[1] ELSE ZeroStats,
                stderr |-> BASE64_encode(stderr_truncate(stderr, json_match))]
       ELSE [stats |-> ZeroStats, stderr |-> BASE64_encode(stderr)]

\* one run of the sandbox has ended with the captured stderr
ParseStats ==
    /\ stats.returned = Null
    /\ stats' = [stats EXCEPT !.returned = Some(parse_plugin_stats(stats.stderr))]
    /\ UNCHANGED <<keyVars, storeVars, execVars, compileVars, subVars, verify, judge, board, rate, direct, submitting, faults>>

StatsNext == ParseStats

(***************************************************************************)
(* The compile phase of process_challenge_submission, step by step, over   *)
(* the compile pipeline: the compile job is submitted and polled in        *)
(* wait_for_compile while a compile worker handles it; an Err goes back to *)
(* submit_challenge, which writes the status "failed".                     *)
(***************************************************************************)
\* the id of the compile job of submission s (Uuid::new_v4())
CompileJobOf(s) == s

\* the bytes of the source text of a submission (the row keeps a label for them)
SourceBytes(s) == <<97>>

\* wait_for_compile(&queue, compile_job_id, Duration::from_secs(120))
CompileTimeoutSecs == 120

\* Display of ApiError (thiserror): the format string and its argument
ApiError_to_string(e) ==
    CASE e.kind = "CompileError" -> <<"Compilation failed: ", e.arg>>
      [] e.kind = "Timeout" -> <<"Execution timed out after ", e.arg, " seconds">>
      [] e.kind = "QueueError" -> <<"Queue error: ", e.arg>>
      [] e.kind = "DatabaseError" -> <<"Database error: ", e.arg>>

\* the same handler writing the status alone
submit_challenge_Err_NoMessage(tbl, s, e) ==
    [tbl EXCEPT ![s] =
        Returned(update_challenge_submission_status(tbl, s, "failed", Null, Null, Null,
                                                    Null)[s])]

\* submit_challenge, process_challenge_submission returned Err(e): status
\* "failed" with e.to_string() as the error message, and the handler returns
submit_challenge_Err(tbl, s, e) ==
    [tbl EXCEPT ![s] =
        Returned(update_challenge_submission_status(tbl, s, "failed", Null, Null, Null,
                                                    Some(ApiError_to_string(e)))[s])]

\* process_challenge_submission: status "compiling", then
\* queue.submit_compile_job(compile_job).await?
SubSubmitCompileJob(s, ok) ==
    /\ s \in DOMAIN subs
    /\ subs[s].pc = "set_compiling"
    /\ Fault(~ok)
    /\ LET t == update_challenge_submission_status(subs, s, "compiling", Null, Null, Null, Null)
       IN IF ok
          THEN /\ submit_compile_job([id |-> CompileJobOf(s), source_code |-> SourceBytes(s),
                                      language |-> "C", optimization |-> "Release",
                                      flags |-> <<>>])
               /\ subs' = [t EXCEPT ![s].pc = "compile_poll"]
          ELSE /\ subs' = submit_challenge_Err(t, s, [kind |-> "QueueError", arg |-> "publish"])
               /\ UNCHANGED <<compiles_kv, compiles_stream>>
    /\ UNCHANGED <<keyVars, viewVars, storeVars, execVars, compile_results, compile_cache_kv,
                   cw, api_cached, cache_owner, leaderboard_entries, now>>

\* a poll loop without its timeout check
SubCompileTimeout_Never(s) ==
    /\ FALSE
    /\ UNCHANGED vars

\* wait_for_compile: start.elapsed() > timeout, Err(Timeout(120)); the job is
\* left as it is
SubCompileTimeout(s) ==
    /\ s \in DOMAIN subs
    /\ SubStep(s, "compile_poll",
               submit_challenge_Err(subs, s, [kind |-> "Timeout", arg |-> CompileTimeoutSecs]))

\* wait_for_compile reads the metadata: Failed is Err(CompileError), Completed
\* with a result is Ok(result) and the status becomes "running" with the binary
\* id, a failed KV read is Err; any other metadata is polled again
SubPollCompile(s, kv_ok) ==
    /\ s \in DOMAIN subs
    /\ subs[s].pc = "compile_poll"
    /\ Fault(~kv_ok)
    /\ LET job_id == CompileJobOf(s)
           metadata == compiles_kv[job_id]
       IN IF ~kv_ok
          THEN subs' = submit_challenge_Err(subs, s, [kind |-> "QueueError", arg |-> "get"])
          ELSE IF metadata.status = "Failed"
          THEN subs' = submit_challenge_Err(subs, s,
                           [kind |-> "CompileError",
                            arg |-> IF metadata.error # Null THEN metadata.error[1]
                                    ELSE "Compilation failed"])
          ELSE /\ metadata.status = "Completed"
               /\ job_id \in DOMAIN compile_results
               /\ LET t == update_challenge_submission_status(subs, s, "running",
                               Some(compile_results[job_id].binary_id), Null, Null, Null)
                  IN subs' = [t EXCEPT ![s].pc = "test"]
    /\ UNCHANGED <<keyVars, viewVars, storeVars, execVars, compileVars, leaderboard_entries, now>>

\* one submission from its creation on: the compile job and its worker, then
\* the turns of the loop over the test cases, with no execute worker running
WaitNext ==
    \/ \E ok \in BOOLEAN : SubSubmitCompileJob(1, ok)
    \/ SubCompileTimeout(1)
    \/ \E kv_ok \in BOOLEAN : SubPollCompile(1, kv_ok)
    \/ \E ok \in BOOLEAN : RunSubmitJob(1, ok)
    \/ RunPollTimeout(1)
    \/ SubFinalStatus(1)
    \/ SubProcessFailed(1)
    \/ \E j \in DOMAIN compiles_stream : CompilesAckWaitExpires(j)
    \/ \E j \in DOMAIN compiles_stream : CompileFetch("c1", j)
    \/ CompileCheckCache("c1")
    \/ \E ok \in BOOLEAN : CompilePutResult("c1", ok)
    \/ \E ok \in BOOLEAN : CompileSetCompiling("c1", ok)
    \/ CompileSourceOk("c1")
    \/ CompileSourceErr("c1")
    \/ \E outcome \in UploadOutcomes : CompileUpload("c1", outcome)
    \/ \E ok \in BOOLEAN : CompileCachePut("c1", ok)
    \/ \E ok \in BOOLEAN : CompileSetCompleted("c1", ok)
    \/ \E ok \in BOOLEAN : CompileSetFailed("c1", ok)
    \/ \E ok \in BOOLEAN : CompileAck("c1", ok)

(***************************************************************************)
(* The database calls of process_challenge_submission that return Err: the *)
(* `?` hands the error to submit_challenge, which writes status "failed".  *)
(***************************************************************************)
\* the final update_challenge_submission_status returns Err
SubFinalStatusErr(s) ==
    /\ s \in DOMAIN subs
    /\ subs[s].pc = "final_status"
    /\ Fault(TRUE)
    /\ subs' = submit_challenge_Err(subs, s, [kind |-> "DatabaseError", arg |-> "update"])
    /\ UNCHANGED <<keyVars, viewVars, storeVars, execVars, compileVars, leaderboard_entries, now>>

\* db::update_leaderboard_entry returns Err: no row is written
SubUpdateLeaderboardErr(s) ==
    /\ s \in DOMAIN subs
    /\ subs[s].pc = "leaderboard"
    /\ Fault(TRUE)
    /\ subs' = submit_challenge_Err(subs, s, [kind |-> "DatabaseError", arg |-> "upsert"])
    /\ UNCHANGED <<keyVars, viewVars, storeVars, execVars, compileVars, leaderboard_entries, now>>

\* a leaderboard row of the submitting user from an earlier submission
EarlierEntry(user) ==
    <<user, ChallengeId, ChallengeLanguage>> :>
        [instructions |-> 4, run_id |-> <<"run", <<0, 1>>>>, source_code |-> <<"source", 0>>,
         is_verified |-> FALSE, created_at |-> 0]

\* process_challenge_submission on one submission, database errors included
OrchestratorErrNext ==
    \/ SubSetCompiling(1)
    \/ \E compiled \in {Null, Some(compute_binary_id(<<1>>))} : SubWaitCompile(1, compiled)
    \/ \E exec_result \in ExecOutcomes, run_found \in BOOLEAN :
            SubRunTest(1, exec_result, run_found)
    \/ SubFinalStatus(1)
    \/ SubUpdateLeaderboard(1)
    \/ SubProcessFailed(1)
    \/ SubFinalStatusErr(1)
    \/ SubUpdateLeaderboardErr(1)

\* two compile worker replicas on the jobs of the stream
TwinNext ==
    \/ \E j \in DOMAIN compiles_stream : CompilesAckWaitExpires(j)
    \/ \E w \in CompileWorkers, j \in DOMAIN compiles_stream : CompileFetch(w, j)
    \/ \E w \in CompileWorkers : CompileCheckCache(w)
    \/ \E w \in CompileWorkers, ok \in BOOLEAN : CompilePutResult(w, ok)
    \/ \E w \in CompileWorkers, ok \in BOOLEAN : CompileSetCompiling(w, ok)
    \/ \E w \in CompileWorkers : CompileSourceOk(w)
    \/ \E w \in CompileWorkers : CompileSourceErr(w)
    \/ \E w \in CompileWorkers, outcome \in UploadOutcomes : CompileUpload(w, outcome)
    \/ \E w \in CompileWorkers, ok \in BOOLEAN : CompileCachePut(w, ok)
    \/ \E w \in CompileWorkers, ok \in BOOLEAN : CompileSetCompleted(w, ok)
    \/ \E w \in CompileWorkers, ok \in BOOLEAN : CompileSetFailed(w, ok)
    \/ \E w \in CompileWorkers, ok \in BOOLEAN : CompileAck(w, ok)

(***************************************************************************)
(* POST /execute without a queue (main.rs execute, sandbox.rs execute):    *)
(* a permit of AppState.semaphore is taken with try_acquire and held in    *)
(* _permit until the handler returns; the sandbox is a docker run child    *)
(* process that tokio leaves running when its Child handle is dropped      *)
(* (kill_on_drop is not set).                                              *)
(***************************************************************************)
MaxRequests == 3    \* requests to POST /execute
MaxConcurrent == 2  \* the largest max_concurrent of the configuration

\* the requests that hold a permit
Holding(reqs) == {r \in DOMAIN reqs : reqs[r].pc \in {"spawn", "wait"}}

\* the handler of request r returns: _permit is dropped, the permit goes back
execute_return(d, r, response) ==
    [d EXCEPT !.reqs[r] = [pc |-> "done", response |-> Some(response)],
              !.permits = @ + 1]

\* a request arrives: state.semaphore.try_acquire().map_err(|_| TooManyRequests)?
execute_try_acquire ==
    /\ Len(direct.reqs) < MaxRequests
    /\ direct' = IF direct.permits > 0
                 THEN [direct EXCEPT !.permits = @ - 1,
                                     !.reqs = Append(@, [pc |-> "spawn", response |-> Null])]
                 ELSE [direct EXCEPT
                          !.reqs = Append(@, [pc |-> "done",
                                              response |-> Some("TooManyRequests")])]
    /\ UNCHANGED <<keyVars, storeVars, execVars, compileVars, subVars, verify, judge, board, rate, stats, submitting, faults>>

\* sandbox::execute up to cmd.spawn(): the temp file, then the docker run child
execute_spawn(r, outcome) ==
    /\ r \in DOMAIN direct.reqs
    /\ direct.reqs[r].pc = "spawn"
    /\ direct' = IF outcome = "spawned"
                 THEN [direct EXCEPT !.reqs[r].pc = "wait", !.containers = @ \cup {r}]
                 ELSE execute_return(direct, r, outcome)
    /\ UNCHANGED <<keyVars, storeVars, execVars, compileVars, subVars, verify, judge, board, rate, stats, submitting, faults>>

\* the sandboxed program ends and its container goes away (docker run --rm)
ContainerExits(r) ==
    /\ r \in direct.containers
    /\ direct' = [direct EXCEPT !.containers = @ \ {r}]
    /\ UNCHANGED <<keyVars, storeVars, execVars, compileVars, subVars, verify, judge, board, rate, stats, submitting, faults>>

\* child.wait_with_output() is ready within the timeout: Ok(Ok(output)) once the
\* child has ended, or Ok(Err(e))
execute_wait(r, ok) ==
    /\ r \in DOMAIN direct.reqs
    /\ direct.reqs[r].pc = "wait"
    /\ ok => r \notin direct.containers
    /\ direct' = execute_return(direct, r, IF ok THEN "Ok" ELSE "DockerError")
    /\ UNCHANGED <<keyVars, storeVars, execVars, compileVars, subVars, verify, judge, board, rate, stats, submitting, faults>>

\* tokio::time::timeout elapses first: Err(Timeout); the wait future and the
\* Child in it are dropped, the child process is not killed
execute_timeout(r) ==
    /\ r \in DOMAIN direct.reqs
    /\ direct.reqs[r].pc = "wait"
    /\ r \in direct.containers
    /\ direct' = execute_return(direct, r, "Timeout")
    /\ UNCHANGED <<keyVars, storeVars, execVars, compileVars, subVars, verify, judge, board, rate, stats, submitting, faults>>

DirectNext ==
    \/ execute_try_acquire
    \/ \E r \in 1..MaxRequests, outcome \in {"spawned", "Internal", "DockerError"} :
            execute_spawn(r, outcome)
    \/ \E r \in 1..MaxRequests : ContainerExits(r)
    \/ \E r \in 1..MaxRequests, ok \in BOOLEAN : execute_wait(r, ok)
    \/ \E r \in 1..MaxRequests : execute_timeout(r)

\* the three places that create execute jobs (POST /submit, POST /execute with
\* a queue, the loop over the test cases of a submission) and an execute
\* worker; no call fails, the polls of the loop end by timeout
NetNext ==
    \/ \E bid \in BinaryIds : submit_by_id(bid)
    \/ \E bin \in {<<1>>} : execute_queued(bin)
    \/ RunSubmitJob(1, TRUE)
    \/ RunPollTimeout(1)
    \/ SubFinalStatus(1)
    \/ \E j \in DOMAIN jobs_stream : ExecFetch("w1", j)
    \/ ExecFetchBinary("w1", TRUE, TRUE)
    \/ ExecSetRunning("w1", TRUE)
    \/ \E result \in SandboxResults : ExecSandboxOk("w1", result)
    \/ ExecSandboxErr("w1")
    \/ ExecStoreResult("w1", TRUE)
    \/ ExecPersistRun("w1", TRUE)
    \/ ExecSetCompleted("w1", TRUE)
    \/ ExecSetFailed("w1", TRUE)
    \/ ExecAck("w1", TRUE)

\* the steps of submit_challenge and process_challenge_submission on submission 1
OrchestratorStep ==
    \/ \E ok \in BOOLEAN : SubSubmitCompileJob(1, ok)
    \/ SubCompileTimeout(1)
    \/ \E kv_ok \in BOOLEAN : SubPollCompile(1, kv_ok)
    \/ \E ok \in BOOLEAN : RunSubmitJob(1, ok)
    \/ RunPollTimeout(1)
    \/ \E kv_ok \in BOOLEAN, passed \in BOOLEAN : RunPollStatus(1, kv_ok, passed)
    \/ SubFinalStatus(1)
    \/ SubUpdateLeaderboard(1)
    \/ SubProcessFailed(1)

\* one submission from its creation to its end, with a compile worker and an
\* execute worker that may stop at any point (none of their calls fails)
LiveNext ==
    \/ OrchestratorStep
    \/ \E j \in DOMAIN compiles_stream : CompileFetch("c1", j)
    \/ CompileCheckCache("c1")
    \/ CompilePutResult("c1", TRUE)
    \/ CompileSetCompiling("c1", TRUE)
    \/ CompileSourceOk("c1")
    \/ CompileSourceErr("c1")
    \/ \E outcome \in UploadOutcomes : CompileUpload("c1", outcome)
    \/ CompileCachePut("c1", TRUE)
    \/ CompileSetCompleted("c1", TRUE)
    \/ CompileSetFailed("c1", TRUE)
    \/ CompileAck("c1", TRUE)
    \/ \E j \in DOMAIN jobs_stream : ExecFetch("w1", j)
    \/ ExecFetchBinary("w1", TRUE, TRUE)
    \/ ExecSetRunning("w1", TRUE)
    \/ \E result \in SandboxResults : ExecSandboxOk("w1", result)
    \/ ExecSandboxErr("w1")
    \/ ExecStoreResult("w1", TRUE)
    \/ ExecPersistRun("w1", TRUE)
    \/ ExecSetCompleted("w1", TRUE)
    \/ ExecSetFailed("w1", TRUE)
    \/ ExecAck("w1", TRUE)

(***************************************************************************)
(* The two run loops, one message at a time: every path of the loop body    *)
(* ends in msg.ack() (worker main.rs 566-697, compile-worker main.rs        *)
(* 594-767).                                                                *)
(***************************************************************************)
\* a payload on the stream that is not the JSON of a job
Unparsable == [garbage |-> TRUE]

\* the stream sequences of the messages on the two streams: 0 does not parse
ExecMessages == {0, 1}
CompileMessages == {0, 1, 2}

\* the worker fetches a message whose payload does not parse: it is logged and
\* acked (the worker's record keeps the message under its stream sequence j)
ExecFetchUnparsable(w, j) ==
    /\ ew[w].pc = "idle"
    /\ j \in DOMAIN jobs_stream
    /\ jobs_stream[j].state = "ready"
    /\ jobs_stream[j].deliveries < MaxDeliver
    /\ from_slice(jobs_stream[j].job) = Null
    /\ jobs_stream' = [jobs_stream EXCEPT ![j].state = "inflight",
                                          ![j].deliveries = @ + 1]
    /\ ew' = [ew EXCEPT ![w] = [IdleExecWorker EXCEPT !.pc = "ack", !.job.id = j]]
    /\ UNCHANGED <<keyVars, viewVars, subVars, compileVars, storeVars, jobs_kv, results_kv, runs,
                   faults>>

\* the same on the compile worker
CompileFetchUnparsable(w, j) ==
    /\ cw[w].pc = "idle"
    /\ j \in DOMAIN compiles_stream
    /\ compiles_stream[j].state = "ready"
    /\ compiles_stream[j].deliveries < MaxDeliver
    /\ from_slice(compiles_stream[j].job) = Null
    /\ compiles_stream' = [compiles_stream EXCEPT ![j].state = "inflight",
                                                  ![j].deliveries = @ + 1]
    /\ cw' = [cw EXCEPT ![w] = [IdleCompileWorker EXCEPT !.pc = "ack", !.job.id = j]]
    /\ UNCHANGED <<keyVars, viewVars, subVars, storeVars, execVars, compiles_kv, compile_results,
                   compile_cache_kv, api_cached, cache_owner, faults>>

\* the body of the execute worker's loop after the fetch, up to and with the ack
\* (the ack itself is taken to arrive)
ExecWorkerStep ==
    \/ \E network_ok \in BOOLEAN, kv_ok \in BOOLEAN : ExecFetchBinary("w1", network_ok, kv_ok)
    \/ \E ok \in BOOLEAN : ExecSetRunning("w1", ok)
    \/ \E result \in SandboxResults : ExecSandboxOk("w1", result)
    \/ ExecSandboxErr("w1")
    \/ \E ok \in BOOLEAN : ExecStoreResult("w1", ok)
    \/ \E ok \in BOOLEAN : ExecPersistRun("w1", ok)
    \/ \E ok \in BOOLEAN : ExecSetCompleted("w1", ok)
    \/ \E ok \in BOOLEAN : ExecSetFailed("w1", ok)
    \/ ExecAck("w1", TRUE)

\* the body of the compile worker's loop after the fetch, up to and with the ack
CompileWorkerStep ==
    \/ CompileCheckCache("c1")
    \/ \E ok \in BOOLEAN : CompilePutResult("c1", ok)
    \/ \E ok \in BOOLEAN : CompileSetCompiling("c1", ok)
    \/ CompileSourceOk("c1")
    \/ CompileSourceErr("c1")
    \/ \E outcome \in UploadOutcomes : CompileUpload("c1", outcome)
    \/ \E ok \in BOOLEAN : CompileCachePut("c1", ok)
    \/ \E ok \in BOOLEAN : CompileSetCompleted("c1", ok)
    \/ \E ok \in BOOLEAN : CompileSetFailed("c1", ok)
    \/ CompileAck("c1", TRUE)

AckNext ==
    \/ \E j \in DOMAIN jobs_stream : ExecFetch("w1", j)
    \/ \E j \in DOMAIN jobs_stream : ExecFetchUnparsable("w1", j)
    \/ \E j \in DOMAIN compiles_stream : CompileFetch("c1", j)
    \/ \E j \in DOMAIN compiles_stream : CompileFetchUnparsable("c1", j)
    \/ ExecWorkerStep
    \/ CompileWorkerStep

(***************************************************************************)
(* submit_job and submit_compile_job in their two steps: the KV put of the  *)
(* Pending metadata, then the publish of the message and its confirmation   *)
(* (queue.rs 374-407, 514-548).  Each job has a fresh Uuid.                 *)
(***************************************************************************)
PendingMetadata == [status |-> "Pending", started_at |-> 0, completed_at |-> 0, error |-> Null]

\* what jetstream.publish(..).await?.await? may come to: published and confirmed,
\* not published, or published with the confirmation lost
PublishOutcomes == {"confirmed", "failed", "unconfirmed"}

\* a submit_job that publishes first and puts the metadata afterwards
submit_job_put_PublishFirst(job, ok) ==
    /\ JobCount + Cardinality(DOMAIN submitting) < MaxJobs
    /\ job.id \notin DOMAIN jobs_kv \cup DOMAIN submitting
    /\ jobs_stream' = (job.id :> [job |-> job, state |-> "ready", deliveries |-> 0])
                      @@ jobs_stream
    /\ submitting' = (job.id :> job) @@ submitting
    /\ UNCHANGED <<keyVars, storeVars, compileVars, subVars, verify, judge, board, rate, stats,
                   direct, jobs_kv, results_kv, runs, ew, faults>>

\* submit_job, first step: jobs_kv.put(job_id, Pending); its Err returns
submit_job_put(job, ok) ==
    /\ JobCount < MaxJobs
    /\ job.id \notin DOMAIN jobs_kv
    /\ db_get_binary(binaries, job.binary_id) # <<>>
    /\ IF ok
       THEN /\ jobs_kv' = (job.id :> PendingMetadata) @@ jobs_kv
            /\ submitting' = (job.id :> job) @@ submitting
       ELSE UNCHANGED <<jobs_kv, submitting>>
    /\ Fault(~ok)
    /\ UNCHANGED <<keyVars, storeVars, compileVars, subVars, verify, judge, board, rate, stats,
                   direct, jobs_stream, results_kv, runs, ew>>

\* submit_job, second step: publish to jobs.submit and await the confirmation
submit_job_publish(id, outcome) ==
    /\ id \in DOMAIN submitting
    /\ "binary_id" \in DOMAIN submitting[id]
    /\ jobs_stream' = IF outcome = "failed" THEN jobs_stream
                      ELSE (id :> [job |-> submitting[id], state |-> "ready", deliveries |-> 0])
                           @@ jobs_stream
    /\ submitting' = [k \in DOMAIN submitting \ {id} |-> submitting[k]]
    /\ Fault(outcome # "confirmed")
    /\ UNCHANGED <<keyVars, storeVars, compileVars, subVars, verify, judge, board, rate, stats,
                   direct, jobs_kv, results_kv, runs, ew>>

\* submit_compile_job, first step: compiles_kv.put(job_id, Pending); its Err returns
submit_compile_job_put(job, ok) ==
    /\ JobCount < MaxJobs
    /\ job.id \notin DOMAIN compiles_kv
    /\ IF ok
       THEN /\ compiles_kv' = (job.id :> PendingMetadata) @@ compiles_kv
            /\ submitting' = (job.id :> job) @@ submitting
       ELSE UNCHANGED <<compiles_kv, submitting>>
    /\ Fault(~ok)
    /\ UNCHANGED <<keyVars, storeVars, execVars, subVars, verify, judge, board, rate, stats,
                   direct, compiles_stream, compile_results, compile_cache_kv, cw, api_cached,
                   cache_owner>>

\* submit_compile_job, second step: publish to compiles.submit and await the confirmation
submit_compile_job_publish(id, outcome) ==
    /\ id \in DOMAIN submitting
    /\ "source_code" \in DOMAIN submitting[id]
    /\ compiles_stream' = IF outcome = "failed" THEN compiles_stream
                          ELSE (id :> [job |-> submitting[id], state |-> "ready",
                                       deliveries |-> 0]) @@ compiles_stream
    /\ submitting' = [k \in DOMAIN submitting \ {id} |-> submitting[k]]
    /\ Fault(outcome # "confirmed")
    /\ UNCHANGED <<keyVars, storeVars, execVars, subVars, verify, judge, board, rate, stats,
                   direct, compiles_kv, compile_results, compile_cache_kv, cw, api_cached,
                   cache_owner>>

PublishNext ==
    \/ \E ok \in BOOLEAN :
            submit_job_put([id |-> JobCount + 1, binary_id |-> compute_binary_id(<<1>>),
                            network_enabled |-> FALSE], ok)
    \/ \E id \in DOMAIN submitting, outcome \in PublishOutcomes : submit_job_publish(id, outcome)
    \/ \E ok \in BOOLEAN :
            submit_compile_job_put([id |-> JobCount + 1, source_code |-> <<97>>,
                                    language |-> "C", optimization |-> "Release",
                                    flags |-> <<>>], ok)
    \/ \E id \in DOMAIN submitting, outcome \in PublishOutcomes :
            submit_compile_job_publish(id, outcome)
    \/ \E j \in DOMAIN jobs_stream : JobsAckWaitExpires(j)
    \/ \E j \in DOMAIN compiles_stream : CompilesAckWaitExpires(j)
    \/ \E j \in DOMAIN jobs_stream : ExecFetch("w1", j)
    \/ \E j \in DOMAIN compiles_stream : CompileFetch("c1", j)
    \/ ExecWorkerStep
    \/ CompileWorkerStep

(***************************************************************************)
(* Specifications.                                                         *)
(***************************************************************************)
\* the services have started: empty tables, streams and buckets, idle workers
Init ==
    /\ ck_req = [source |-> <<>>, language |-> "C", optimization |-> "Release",
                 flags |-> <<>>]
    /\ ck_orders = {}
    /\ ck_keys = {}
    /\ binaries = <<>>
    /\ store_call = Null
    /\ jobs_stream = <<>>
    /\ jobs_kv = <<>>
    /\ results_kv = <<>>
    /\ runs = <<>>
    /\ ew = [w \in ExecWorkers |-> IdleExecWorker]
    /\ compiles_stream = <<>>
    /\ compiles_kv = <<>>
    /\ compile_results = <<>>
    /\ compile_cache_kv = <<>>
    /\ cw = [w \in CompileWorkers |-> IdleCompileWorker]
    /\ api_cached = Null
    /\ cache_owner = <<>>
    /\ subs = <<>>
    /\ leaderboard_entries = <<>>
    /\ now = 1
    /\ verify = Null
    /\ judge = Null
    /\ board = Null
    /\ rate = Null
    /\ stats = Null
    /\ direct = Null
    /\ submitting = Null
    /\ faults = 0

\* the same, with one compile request whose cache key is computed
KeyInit ==
    /\ ck_req \in CompileRequests
    /\ ck_orders = {}
    /\ ck_keys = {}
    /\ binaries = <<>>
    /\ store_call = Null
    /\ jobs_stream = <<>>
    /\ jobs_kv = <<>>
    /\ results_kv = <<>>
    /\ runs = <<>>
    /\ ew = [w \in ExecWorkers |-> IdleExecWorker]
    /\ compiles_stream = <<>>
    /\ compiles_kv = <<>>
    /\ compile_results = <<>>
    /\ compile_cache_kv = <<>>
    /\ cw = [w \in CompileWorkers |-> IdleCompileWorker]
    /\ api_cached = Null
    /\ cache_owner = <<>>
    /\ subs = <<>>
    /\ leaderboard_entries = <<>>
    /\ now = 1
    /\ verify = Null
    /\ judge = Null
    /\ board = Null
    /\ rate = Null
    /\ stats = Null
    /\ direct = Null
    /\ submitting = Null
    /\ faults = 0

\* the same, with passed submissions about to call update_leaderboard_entry
LeaderboardInit ==
    /\ ck_req = [source |-> <<>>, language |-> "C", optimization |-> "Release",
                 flags |-> <<>>]
    /\ ck_orders = {}
    /\ ck_keys = {}
    /\ binaries = <<>>
    /\ store_call = Null
    /\ jobs_stream = <<>>
    /\ jobs_kv = <<>>
    /\ results_kv = <<>>
    /\ runs = <<>>
    /\ ew = [w \in ExecWorkers |-> IdleExecWorker]
    /\ compiles_stream = <<>>
    /\ compiles_kv = <<>>
    /\ compile_results = <<>>
    /\ compile_cache_kv = <<>>
    /\ cw = [w \in CompileWorkers |-> IdleCompileWorker]
    /\ api_cached = Null
    /\ cache_owner = <<>>
    /\ subs \in PendingUpserts
    /\ leaderboard_entries = <<>>
    /\ now = 1
    /\ verify = Null
    /\ judge = Null
    /\ board = Null
    /\ rate = Null
    /\ stats = Null
    /\ direct = Null
    /\ submitting = Null
    /\ faults = 0

\* the same, with one pair of outputs verify_output is called on
VerifyInit ==
    /\ ck_req = [source |-> <<>>, language |-> "C", optimization |-> "Release",
                 flags |-> <<>>]
    /\ ck_orders = {}
    /\ ck_keys = {}
    /\ binaries = <<>>
    /\ store_call = Null
    /\ jobs_stream = <<>>
    /\ jobs_kv = <<>>
    /\ results_kv = <<>>
    /\ runs = <<>>
    /\ ew = [w \in ExecWorkers |-> IdleExecWorker]
    /\ compiles_stream = <<>>
    /\ compiles_kv = <<>>
    /\ compile_results = <<>>
    /\ compile_cache_kv = <<>>
    /\ cw = [w \in CompileWorkers |-> IdleCompileWorker]
    /\ api_cached = Null
    /\ cache_owner = <<>>
    /\ subs = <<>>
    /\ leaderboard_entries = <<>>
    /\ now = 1
    /\ verify \in [actual : Outputs, expected : Outputs, mode : VerifyModes,
                 returned : {Null}]
    /\ judge = Null
    /\ board = Null
    /\ rate = Null
    /\ stats = Null
    /\ direct = Null
    /\ submitting = Null
    /\ faults = 0

\* the same, with a leaderboard the submissions have filled
BoardInit ==
    /\ ck_req = [source |-> <<>>, language |-> "C", optimization |-> "Release",
                 flags |-> <<>>]
    /\ ck_orders = {}
    /\ ck_keys = {}
    /\ binaries = <<>>
    /\ store_call = Null
    /\ jobs_stream = <<>>
    /\ jobs_kv = <<>>
    /\ results_kv = <<>>
    /\ runs = <<>>
    /\ ew = [w \in ExecWorkers |-> IdleExecWorker]
    /\ compiles_stream = <<>>
    /\ compiles_kv = <<>>
    /\ compile_results = <<>>
    /\ compile_cache_kv = <<>>
    /\ cw = [w \in CompileWorkers |-> IdleCompileWorker]
    /\ api_cached = Null
    /\ cache_owner = <<>>
    /\ subs = <<>>
    /\ leaderboard_entries \in BoardTables
    /\ now = 1
    /\ verify = Null
    /\ judge = Null
    /\ board = Null
    /\ rate = Null
    /\ stats = Null
    /\ direct = Null
    /\ submitting = Null
    /\ faults = 0

\* POST /submit has stored a binary and submitted one job for it
DeliveryInit ==
    /\ ck_req = [source |-> <<>>, language |-> "C", optimization |-> "Release",
                 flags |-> <<>>]
    /\ ck_orders = {}
    /\ ck_keys = {}
    /\ \E bin \in Blobs :
          /\ binaries = db_store_binary(<<>>, compute_binary_id(bin), bin, NoMetadata)
          /\ store_call = Some([id |-> compute_binary_id(bin), data |-> bin,
                                metadata |-> NoMetadata])
          /\ jobs_stream = (1 :> [job |-> [id |-> 1, binary_id |-> compute_binary_id(bin), network_enabled |-> FALSE],
                                  state |-> "ready", deliveries |-> 0])
    /\ jobs_kv = (1 :> [status |-> "Pending", started_at |-> 0, completed_at |-> 0,
                        error |-> Null])
    /\ results_kv = <<>>
    /\ runs = <<>>
    /\ ew = [w \in ExecWorkers |-> IdleExecWorker]
    /\ compiles_stream = <<>>
    /\ compiles_kv = <<>>
    /\ compile_results = <<>>
    /\ compile_cache_kv = <<>>
    /\ cw = [w \in CompileWorkers |-> IdleCompileWorker]
    /\ api_cached = Null
    /\ cache_owner = <<>>
    /\ subs = <<>>
    /\ leaderboard_entries = <<>>
    /\ now = 1
    /\ verify = Null
    /\ judge = Null
    /\ board = Null
    /\ rate = Null
    /\ stats = Null
    /\ direct = Null
    /\ submitting = Null
    /\ faults = 0

\* the same, with one submission that submit_challenge has just created
OrchestratorInit ==
    /\ ck_req = [source |-> <<>>, language |-> "C", optimization |-> "Release",
                 flags |-> <<>>]
    /\ ck_orders = {}
    /\ ck_keys = {}
    /\ binaries = <<>>
    /\ store_call = Null
    /\ jobs_stream = <<>>
    /\ jobs_kv = <<>>
    /\ results_kv = <<>>
    /\ runs = <<>>
    /\ ew = [w \in ExecWorkers |-> IdleExecWorker]
    /\ compiles_stream = <<>>
    /\ compiles_kv = <<>>
    /\ compile_results = <<>>
    /\ compile_cache_kv = <<>>
    /\ cw = [w \in CompileWorkers |-> IdleCompileWorker]
    /\ api_cached = Null
    /\ cache_owner = <<>>
    /\ subs \in {<<PendingSubmission(user, is_verified)>> :
                    user \in Users, is_verified \in BOOLEAN}
    /\ leaderboard_entries = <<>>
    /\ now = 1
    /\ verify = Null
    /\ judge = Null
    /\ board = Null
    /\ rate = Null
    /\ stats = Null
    /\ direct = Null
    /\ submitting = Null
    /\ faults = 0

\* the same, with a test case of two challenges that differ in its expected_stdout
JudgeInit ==
    /\ ck_req = [source |-> <<>>, language |-> "C", optimization |-> "Release",
                 flags |-> <<>>]
    /\ ck_orders = {}
    /\ ck_keys = {}
    /\ binaries = <<>>
    /\ store_call = Null
    /\ jobs_stream = <<>>
    /\ jobs_kv = <<>>
    /\ results_kv = <<>>
    /\ runs = <<>>
    /\ ew = [w \in ExecWorkers |-> IdleExecWorker]
    /\ compiles_stream = <<>>
    /\ compiles_kv = <<>>
    /\ compile_results = <<>>
    /\ compile_cache_kv = <<>>
    /\ cw = [w \in CompileWorkers |-> IdleCompileWorker]
    /\ api_cached = Null
    /\ cache_owner = <<>>
    /\ subs = <<>>
    /\ leaderboard_entries = <<>>
    /\ now = 1
    /\ verify = Null
    /\ judge \in [expected : ExpectedStdouts \X ExpectedStdouts, verify_mode : VerifyModes,
                pc : {"sandbox"}, printed : {Null}, exec_result : {Null},
                compared : {Null}, rows : {Null}, status_responses : {Null},
                detail_responses : {Null}]
    /\ board = Null
    /\ rate = Null
    /\ stats = Null
    /\ direct = Null
    /\ submitting = Null
    /\ faults = 0

\* the execute pipeline: POST /submit, the execute workers, the janitor
SpecExec == Init /\ [][ExecNext]_vars

\* the deliveries of one execute job
SpecDelivery == DeliveryInit /\ [][DeliveryNext]_vars

\* the compile pipeline: POST /compile, the compile workers, the janitor
SpecCompile == Init /\ [][CompileNext]_vars

\* compute_cache_key on one request
SpecKey == KeyInit /\ [][KeyNext]_vars


\* challenge submissions and the leaderboard
SpecSub == Init /\ [][SubNext]_vars

\* process_challenge_submission on one submission
SpecOrchestrator == OrchestratorInit /\ [][OrchestratorNext]_vars

\* update_leaderboard_entry under the calls of passed submissions
SpecLeaderboard == LeaderboardInit /\ [][LeaderboardNext]_vars

\* the binary store and its clients
SpecStore == Init /\ [][StoreNext]_vars

\* the leaderboard queries on a filled leaderboard
SpecBoard == BoardInit /\ [][BoardNext]_vars

\* verify_output on one pair of outputs
SpecVerify == VerifyInit /\ [][VerifyNext]_vars

\* one test case, judged for two challenges that differ in expected_stdout
SpecJudge == JudgeInit /\ [][JudgeNext]_vars

\* the table rate_limits is empty; the configured limit is any u32 of LimitsPerMinute
RateInit ==
    /\ ck_req = [source |-> <<>>, language |-> "C", optimization |-> "Release",
                 flags |-> <<>>]
    /\ ck_orders = {}
    /\ ck_keys = {}
    /\ binaries = <<>>
    /\ store_call = Null
    /\ jobs_stream = <<>>
    /\ jobs_kv = <<>>
    /\ results_kv = <<>>
    /\ runs = <<>>
    /\ ew = [w \in ExecWorkers |-> IdleExecWorker]
    /\ compiles_stream = <<>>
    /\ compiles_kv = <<>>
    /\ compile_results = <<>>
    /\ compile_cache_kv = <<>>
    /\ cw = [w \in CompileWorkers |-> IdleCompileWorker]
    /\ api_cached = Null
    /\ cache_owner = <<>>
    /\ subs = <<>>
    /\ leaderboard_entries = <<>>
    /\ now = 1
    /\ verify = Null
    /\ judge = Null
    /\ board = Null
    /\ rate \in [now : {0}, limit_per_minute : LimitsPerMinute, table : {<<>>}, calls : {<<>>}]
    /\ stats = Null
    /\ direct = Null
    /\ submitting = Null
    /\ faults = 0

\* check_rate_limit alone
SpecRate == RateInit /\ [][RateNext]_vars

\* the compile job of one submission has completed: the binary is stored, the status is running and the loop over the test cases starts
RunInit ==
    /\ ck_req = [source |-> <<>>, language |-> "C", optimization |-> "Release",
                 flags |-> <<>>]
    /\ ck_orders = {}
    /\ ck_keys = {}
    /\ binaries = db_store_binary(<<>>, compute_binary_id(<<1>>), <<1>>, NoMetadata)
    /\ store_call = Null
    /\ jobs_stream = <<>>
    /\ jobs_kv = <<>>
    /\ results_kv = <<>>
    /\ runs = <<>>
    /\ ew = [w \in ExecWorkers |-> IdleExecWorker]
    /\ compiles_stream = <<>>
    /\ compiles_kv = <<>>
    /\ compile_results = <<>>
    /\ compile_cache_kv = <<>>
    /\ cw = [w \in CompileWorkers |-> IdleCompileWorker]
    /\ api_cached = Null
    /\ cache_owner = <<>>
    /\ subs \in {<<[PendingSubmission(user, is_verified) EXCEPT !.status = "running", !.binary_id = Some(compute_binary_id(<<1>>)), !.pc = "test"]>> : user \in {"u1"}, is_verified \in BOOLEAN}
    /\ leaderboard_entries = <<>>
    /\ now = 1
    /\ verify = Null
    /\ judge = Null
    /\ board = Null
    /\ rate = Null
    /\ stats = Null
    /\ direct = Null
    /\ submitting = Null
    /\ faults = 0

\* one submission running its test cases on the execute pipeline
SpecRun == RunInit /\ [][RunNext]_vars

\* both pipelines
SpecPipelines == Init /\ [][PipelinesNext]_vars

\* the sandbox run has ended: any captured stderr of Stderrs
StatsInit ==
    /\ ck_req = [source |-> <<>>, language |-> "C", optimization |-> "Release",
                 flags |-> <<>>]
    /\ ck_orders = {}
    /\ ck_keys = {}
    /\ binaries = <<>>
    /\ store_call = Null
    /\ jobs_stream = <<>>
    /\ jobs_kv = <<>>
    /\ results_kv = <<>>
    /\ runs = <<>>
    /\ ew = [w \in ExecWorkers |-> IdleExecWorker]
    /\ compiles_stream = <<>>
    /\ compiles_kv = <<>>
    /\ compile_results = <<>>
    /\ compile_cache_kv = <<>>
    /\ cw = [w \in CompileWorkers |-> IdleCompileWorker]
    /\ api_cached = Null
    /\ cache_owner = <<>>
    /\ subs = <<>>
    /\ leaderboard_entries = <<>>
    /\ now = 1
    /\ verify = Null
    /\ judge = Null
    /\ board = Null
    /\ rate = Null
    /\ stats \in [stderr : Stderrs, returned : {Null}]
    /\ direct = Null
    /\ submitting = Null
    /\ faults = 0

\* the statistics parsing alone
SpecStats == StatsInit /\ [][StatsNext]_vars

\* POST /submit has submitted one job; the binaries row it names is there, or has been deleted since (db::cleanup_old_binaries)
FetchInit ==
    /\ ck_req = [source |-> <<>>, language |-> "C", optimization |-> "Release",
                 flags |-> <<>>]
    /\ ck_orders = {}
    /\ ck_keys = {}
    /\ binaries \in {<<>>, db_store_binary(<<>>, compute_binary_id(<<1>>), <<1>>, NoMetadata)}
    /\ store_call = Null
    /\ jobs_stream = (1 :> [job |-> [id |-> 1, binary_id |-> compute_binary_id(<<1>>), network_enabled |-> FALSE], state |-> "ready", deliveries |-> 0])
    /\ jobs_kv = (1 :> [status |-> "Pending", started_at |-> 0, completed_at |-> 0, error |-> Null])
    /\ results_kv = <<>>
    /\ runs = <<>>
    /\ ew = [w \in ExecWorkers |-> IdleExecWorker]
    /\ compiles_stream = <<>>
    /\ compiles_kv = <<>>
    /\ compile_results = <<>>
    /\ compile_cache_kv = <<>>
    /\ cw = [w \in CompileWorkers |-> IdleCompileWorker]
    /\ api_cached = Null
    /\ cache_owner = <<>>
    /\ subs = <<>>
    /\ leaderboard_entries = <<>>
    /\ now = 1
    /\ verify = Null
    /\ judge = Null
    /\ board = Null
    /\ rate = Null
    /\ stats = Null
    /\ direct = Null
    /\ submitting = Null
    /\ faults = 0

\* the deliveries of one execute job whose binary may be gone
SpecFetch == FetchInit /\ [][DeliveryNext]_vars

\* a submission has been created by submit_challenge: status pending, nothing compiled yet
WaitInit ==
    /\ ck_req = [source |-> <<>>, language |-> "C", optimization |-> "Release",
                 flags |-> <<>>]
    /\ ck_orders = {}
    /\ ck_keys = {}
    /\ binaries = <<>>
    /\ store_call = Null
    /\ jobs_stream = <<>>
    /\ jobs_kv = <<>>
    /\ results_kv = <<>>
    /\ runs = <<>>
    /\ ew = [w \in ExecWorkers |-> IdleExecWorker]
    /\ compiles_stream = <<>>
    /\ compiles_kv = <<>>
    /\ compile_results = <<>>
    /\ compile_cache_kv = <<>>
    /\ cw = [w \in CompileWorkers |-> IdleCompileWorker]
    /\ api_cached = Null
    /\ cache_owner = <<>>
    /\ subs \in {<<PendingSubmission(user, is_verified)>> : user \in {"u1"}, is_verified \in BOOLEAN}
    /\ leaderboard_entries = <<>>
    /\ now = 1
    /\ verify = Null
    /\ judge = Null
    /\ board = Null
    /\ rate = Null
    /\ stats = Null
    /\ direct = Null
    /\ submitting = Null
    /\ faults = 0

\* one submission through its compile phase and on to its test cases
SpecWait == WaitInit /\ [][WaitNext]_vars

\* one submission that submit_challenge has just created; its user may hold a leaderboard row already
OrchestratorErrInit ==
    /\ ck_req = [source |-> <<>>, language |-> "C", optimization |-> "Release",
                 flags |-> <<>>]
    /\ ck_orders = {}
    /\ ck_keys = {}
    /\ binaries = <<>>
    /\ store_call = Null
    /\ jobs_stream = <<>>
    /\ jobs_kv = <<>>
    /\ results_kv = <<>>
    /\ runs = <<>>
    /\ ew = [w \in ExecWorkers |-> IdleExecWorker]
    /\ compiles_stream = <<>>
    /\ compiles_kv = <<>>
    /\ compile_results = <<>>
    /\ compile_cache_kv = <<>>
    /\ cw = [w \in CompileWorkers |-> IdleCompileWorker]
    /\ api_cached = Null
    /\ cache_owner = <<>>
    /\ subs \in {<<PendingSubmission(user, is_verified)>> : user \in Users, is_verified \in BOOLEAN}
    /\ leaderboard_entries \in {<<>>} \cup {EarlierEntry(user) : user \in Users}
    /\ now = 1
    /\ verify = Null
    /\ judge = Null
    /\ board = Null
    /\ rate = Null
    /\ stats = Null
    /\ direct = Null
    /\ submitting = Null
    /\ faults = 0

\* the orchestrator of one submission, database errors included
SpecOrchestratorErr == OrchestratorErrInit /\ [][OrchestratorErrNext]_vars

\* two compile jobs of one source, language and optimization have been submitted: same fingerprint, both Pending
TwinInit ==
    /\ ck_req = [source |-> <<>>, language |-> "C", optimization |-> "Release",
                 flags |-> <<>>]
    /\ ck_orders = {}
    /\ ck_keys = {}
    /\ binaries = <<>>
    /\ store_call = Null
    /\ jobs_stream = <<>>
    /\ jobs_kv = <<>>
    /\ results_kv = <<>>
    /\ runs = <<>>
    /\ ew = [w \in ExecWorkers |-> IdleExecWorker]
    /\ compiles_stream = [j \in {1, 2} |-> [job |-> [id |-> j, source_code |-> <<97>>, language |-> "C", optimization |-> "Release", flags |-> <<>>], state |-> "ready", deliveries |-> 0]]
    /\ compiles_kv = [j \in {1, 2} |-> [status |-> "Pending", started_at |-> 0, completed_at |-> 0, error |-> Null]]
    /\ compile_results = <<>>
    /\ compile_cache_kv = <<>>
    /\ cw = [w \in CompileWorkers |-> IdleCompileWorker]
    /\ api_cached = Null
    /\ cache_owner = <<>>
    /\ subs = <<>>
    /\ leaderboard_entries = <<>>
    /\ now = 1
    /\ verify = Null
    /\ judge = Null
    /\ board = Null
    /\ rate = Null
    /\ stats = Null
    /\ direct = Null
    /\ submitting = Null
    /\ faults = 0

\* two replicas on two jobs of one fingerprint
SpecTwin == TwinInit /\ [][TwinNext]_vars

\* the API has started without a queue: Semaphore::new(config.max_concurrent), no request yet
DirectInit ==
    /\ ck_req = [source |-> <<>>, language |-> "C", optimization |-> "Release",
                 flags |-> <<>>]
    /\ ck_orders = {}
    /\ ck_keys = {}
    /\ binaries = <<>>
    /\ store_call = Null
    /\ jobs_stream = <<>>
    /\ jobs_kv = <<>>
    /\ results_kv = <<>>
    /\ runs = <<>>
    /\ ew = [w \in ExecWorkers |-> IdleExecWorker]
    /\ compiles_stream = <<>>
    /\ compiles_kv = <<>>
    /\ compile_results = <<>>
    /\ compile_cache_kv = <<>>
    /\ cw = [w \in CompileWorkers |-> IdleCompileWorker]
    /\ api_cached = Null
    /\ cache_owner = <<>>
    /\ subs = <<>>
    /\ leaderboard_entries = <<>>
    /\ now = 1
    /\ verify = Null
    /\ judge = Null
    /\ board = Null
    /\ rate = Null
    /\ stats = Null
    /\ direct \in {[max_concurrent |-> n, permits |-> n, reqs |-> <<>>, containers |-> {}] : n \in 1..MaxConcurrent}
    /\ submitting = Null
    /\ faults = 0

\* POST /execute in direct mode
SpecDirect == DirectInit /\ [][DirectNext]_vars

\* a submission to either challenge has compiled: the binary is stored, the status is running and the loop over the test cases starts
NetInit ==
    /\ ck_req = [source |-> <<>>, language |-> "C", optimization |-> "Release",
                 flags |-> <<>>]
    /\ ck_orders = {}
    /\ ck_keys = {}
    /\ binaries = db_store_binary(<<>>, compute_binary_id(<<1>>), <<1>>, NoMetadata)
    /\ store_call = Null
    /\ jobs_stream = <<>>
    /\ jobs_kv = <<>>
    /\ results_kv = <<>>
    /\ runs = <<>>
    /\ ew = [w \in ExecWorkers |-> IdleExecWorker]
    /\ compiles_stream = <<>>
    /\ compiles_kv = <<>>
    /\ compile_results = <<>>
    /\ compile_cache_kv = <<>>
    /\ cw = [w \in CompileWorkers |-> IdleCompileWorker]
    /\ api_cached = Null
    /\ cache_owner = <<>>
    /\ subs \in {<<[PendingSubmission("u1", FALSE) EXCEPT !.status = "running", !.binary_id = Some(compute_binary_id(<<1>>)), !.pc = "test", !.challenge_id = c]>> : c \in DOMAIN Challenges}
    /\ leaderboard_entries = <<>>
    /\ now = 1
    /\ verify = Null
    /\ judge = Null
    /\ board = Null
    /\ rate = Null
    /\ stats = Null
    /\ direct = Null
    /\ submitting = Null
    /\ faults = 0

\* execute jobs of every origin and a worker
SpecNet == NetInit /\ [][NetNext]_vars

\* the same under fairness of the orchestrator alone: the handler of the
\* request keeps running and its poll loops see the time pass, while the
\* workers may never take another step and no call has to fail
SpecLive == WaitInit /\ [][LiveNext]_vars /\ WF_vars(OrchestratorStep /\ faults' = faults)

\* each stream holds a message that does not parse (sequence 0) beside submitted jobs
AckInit ==
    /\ ck_req = [source |-> <<>>, language |-> "C", optimization |-> "Release",
                 flags |-> <<>>]
    /\ ck_orders = {}
    /\ ck_keys = {}
    /\ binaries = db_store_binary(<<>>, compute_binary_id(<<1>>), <<1>>, NoMetadata)
    /\ store_call = Null
    /\ jobs_stream = [j \in ExecMessages |-> [job |-> IF j = 0 THEN Unparsable ELSE [id |-> j, binary_id |-> compute_binary_id(<<1>>), network_enabled |-> FALSE], state |-> "ready", deliveries |-> 0]]
    /\ jobs_kv = (1 :> [status |-> "Pending", started_at |-> 0, completed_at |-> 0, error |-> Null])
    /\ results_kv = <<>>
    /\ runs = <<>>
    /\ ew = [w \in ExecWorkers |-> IdleExecWorker]
    /\ compiles_stream = [j \in CompileMessages |-> [job |-> IF j = 0 THEN Unparsable ELSE [id |-> j, source_code |-> <<97>>, language |-> "C", optimization |-> "Release", flags |-> <<>>], state |-> "ready", deliveries |-> 0]]
    /\ compiles_kv = [j \in CompileMessages \ {0} |-> [status |-> "Pending", started_at |-> 0, completed_at |-> 0, error |-> Null]]
    /\ compile_results = <<>>
    /\ compile_cache_kv = <<>>
    /\ cw = [w \in CompileWorkers |-> IdleCompileWorker]
    /\ api_cached = Null
    /\ cache_owner = <<>>
    /\ subs = <<>>
    /\ leaderboard_entries = <<>>
    /\ now = 1
    /\ verify = Null
    /\ judge = Null
    /\ board = Null
    /\ rate = Null
    /\ stats = Null
    /\ direct = Null
    /\ submitting = Null
    /\ faults = 0

\* one worker of each kind on its stream; each run loop keeps running
SpecAck == AckInit /\ [][AckNext]_vars /\ WF_vars(ExecWorkerStep) /\ WF_vars(CompileWorkerStep)

\* one compile request with a source, a language and flags that meet at the seams of the hashed bytes
SeamInit ==
    /\ ck_req \in SeamRequests
    /\ ck_orders = {}
    /\ ck_keys = {}
    /\ binaries = <<>>
    /\ store_call = Null
    /\ jobs_stream = <<>>
    /\ jobs_kv = <<>>
    /\ results_kv = <<>>
    /\ runs = <<>>
    /\ ew = [w \in ExecWorkers |-> IdleExecWorker]
    /\ compiles_stream = <<>>
    /\ compiles_kv = <<>>
    /\ compile_results = <<>>
    /\ compile_cache_kv = <<>>
    /\ cw = [w \in CompileWorkers |-> IdleCompileWorker]
    /\ api_cached = Null
    /\ cache_owner = <<>>
    /\ subs = <<>>
    /\ leaderboard_entries = <<>>
    /\ now = 1
    /\ verify = Null
    /\ judge = Null
    /\ board = Null
    /\ rate = Null
    /\ stats = Null
    /\ direct = Null
    /\ submitting = Null
    /\ faults = 0

\* the cache key of one such request, computed by the API and by the worker
SpecSeam == SeamInit /\ [][KeyNext]_vars

\* no job yet; the binary that the execute jobs name is stored
PublishInit ==
    /\ ck_req = [source |-> <<>>, language |-> "C", optimization |-> "Release",
                 flags |-> <<>>]
    /\ ck_orders = {}
    /\ ck_keys = {}
    /\ binaries = db_store_binary(<<>>, compute_binary_id(<<1>>), <<1>>, NoMetadata)
    /\ store_call = Null
    /\ jobs_stream = <<>>
    /\ jobs_kv = <<>>
    /\ results_kv = <<>>
    /\ runs = <<>>
    /\ ew = [w \in ExecWorkers |-> IdleExecWorker]
    /\ compiles_stream = <<>>
    /\ compiles_kv = <<>>
    /\ compile_results = <<>>
    /\ compile_cache_kv = <<>>
    /\ cw = [w \in CompileWorkers |-> IdleCompileWorker]
    /\ api_cached = Null
    /\ cache_owner = <<>>
    /\ subs = <<>>
    /\ leaderboard_entries = <<>>
    /\ now = 1
    /\ verify = Null
    /\ judge = Null
    /\ board = Null
    /\ rate = Null
    /\ stats = Null
    /\ direct = Null
    /\ submitting = Null
    /\ faults = 0

\* the API submits jobs in two steps while a worker of each kind runs
SpecPublish == PublishInit /\ [][PublishNext]_vars

(***************************************************************************)
(* Claims.                                                                 *)
(***************************************************************************)
\* C1 (its last clause): once the metadata status of a job is Completed or
\* Failed it never changes again, whatever is delivered again.
C1_TerminalAbsorbing ==
    [][/\ \A j \in DOMAIN jobs_kv :
            jobs_kv[j].status \in Terminal => jobs_kv'[j].status = jobs_kv[j].status
       /\ \A j \in DOMAIN compiles_kv :
            compiles_kv[j].status \in Terminal
                => compiles_kv'[j].status = compiles_kv[j].status]_vars

\* C2: a worker that receives a job whose metadata is already Completed or
\* Failed goes straight to the ack: it fetches no binary, probes no cache, runs
\* nothing and writes nothing.
C2_TerminalRedeliverySkipped ==
    [][/\ \A w \in ExecWorkers :
            (ew[w].pc = "idle" /\ ew'[w].pc # "idle"
                /\ jobs_kv[ew'[w].job.id].status \in Terminal) => ew'[w].pc = "ack"
       /\ \A w \in CompileWorkers :
            (cw[w].pc = "idle" /\ cw'[w].pc # "idle"
                /\ compiles_kv[cw'[w].job.id].status \in Terminal) => cw'[w].pc = "ack"]_vars

\* C3: update_leaderboard_entry inserts the row when the key has none; when it
\* has one it replaces instructions, run_id, source_code, is_verified and
\* created_at together iff the new count is strictly smaller, and leaves the
\* row as it is when the new count is equal or larger; no other row changes.
C3_ConditionalUpsert ==
    [][\A s \in DOMAIN subs :
        (subs[s].pc = "leaderboard" /\ subs'[s].pc = "done")
        => LET me == subs[s]
               key == <<me.user_id, me.challenge_id, me.language>>
               new == [instructions |-> me.max_instructions,
                       run_id |-> me.final_run_id[1], source_code |-> me.source_code,
                       is_verified |-> me.is_verified, created_at |-> now]
           IN /\ DOMAIN leaderboard_entries' = DOMAIN leaderboard_entries \cup {key}
              /\ \A k \in DOMAIN leaderboard_entries \ {key} :
                    leaderboard_entries'[k] = leaderboard_entries[k]
              /\ IF key \notin DOMAIN leaderboard_entries
                 THEN leaderboard_entries'[key] = new
                 ELSE IF new.instructions < leaderboard_entries[key].instructions
                      THEN leaderboard_entries'[key] = new
                      ELSE leaderboard_entries'[key] = leaderboard_entries[key]]_vars

\* two submissions of one key called update_leaderboard_entry: the row is the
\* second call's, which replaced the first call's larger count
C3_Witness ==
    \E s1, s2 \in DOMAIN subs :
        LET key == <<subs[s2].user_id, subs[s2].challenge_id, subs[s2].language>>
        IN /\ s1 # s2
           /\ subs[s1].user_id = subs[s2].user_id
           /\ subs[s1].pc = "done" /\ subs[s2].pc = "done"
           /\ subs[s1].status = "passed" /\ subs[s2].status = "passed"
           /\ subs[s2].instructions[1] < subs[s1].instructions[1]
           /\ key \in DOMAIN leaderboard_entries
           /\ leaderboard_entries[key].source_code = subs[s2].source_code
           /\ leaderboard_entries[key].instructions = subs[s2].instructions[1]
           /\ leaderboard_entries[key].created_at = 2

\* the submissions of a key that have finished with status passed
PassedOf(key) ==
    {s \in DOMAIN subs :
        /\ <<subs[s].user_id, subs[s].challenge_id, subs[s].language>> = key
        /\ subs[s].pc = "done"
        /\ subs[s].status = "passed"}

LeaderboardKeys == {<<u, ChallengeId, ChallengeLanguage>> : u \in Users}

\* C4: once every submission has finished, each key with a passed submission
\* has a leaderboard row whose instructions is the minimum of the
\* max_instructions of the key's passed submissions.
C4_RowIsMinimumOfPassed ==
    (\A s \in DOMAIN subs : subs[s].pc = "done")
    => \A key \in LeaderboardKeys :
          PassedOf(key) # {}
          => /\ key \in DOMAIN leaderboard_entries
             /\ \E s \in PassedOf(key) :
                    leaderboard_entries[key].instructions = subs[s].instructions[1]
             /\ \A s \in PassedOf(key) :
                    leaderboard_entries[key].instructions <= subs[s].instructions[1]

\* C5: a submission that finished with status passed has a leaderboard row for
\* its key afterwards, with instructions no larger than the submission's
\* max-over-tests count; and the row's count never grows.
C5_PassedHasRow ==
    [][\A s \in DOMAIN subs' :
        LET key == <<subs'[s].user_id, subs'[s].challenge_id, subs'[s].language>>
        IN /\ (subs'[s].pc = "done" /\ subs'[s].status = "passed")
              => /\ key \in DOMAIN leaderboard_entries'
                 /\ leaderboard_entries'[key].instructions <= subs'[s].instructions[1]
           /\ key \in DOMAIN leaderboard_entries
              => /\ key \in DOMAIN leaderboard_entries'
                 /\ leaderboard_entries'[key].instructions
                        <= leaderboard_entries[key].instructions]_vars

\* C6: a compile-cache hit is acted on only if the binary it names resolves in
\* the binary store at that moment: when check_compile_cache returns a result,
\* and when the compile worker takes a cache entry as the job's result.
C6_CacheHitBinaryResolves ==
    [][/\ (api_cached' # api_cached /\ api_cached' # Null)
            => HasBinary(binaries, api_cached'[1].binary_id)
       /\ \A w \in CompileWorkers :
            (cw[w].pc = "check_cache" /\ cw'[w].pc = "hit_put_result")
                => HasBinary(binaries, cw'[w].result.binary_id)]_vars

C8_KeyPermutationInvariant == Cardinality(ck_keys) <= 1

\* a request with two flags whose key was computed under both iteration orders
C8_Witness ==
    /\ Cardinality(DOMAIN ck_req.flags) = 2
    /\ Cardinality(ck_orders) = 2
    /\ Cardinality(ck_keys) = 1

\* C9: every row of the binary store has the id "sha256-" + hex(sha256(data))
\* of the bytes stored in it.
C9_IdIsContentHash ==
    \A i \in DOMAIN binaries : binaries[i].id = compute_binary_id(binaries[i].data)

\* C10: a put of the id and bytes of a stored row leaves the row's bytes and
\* size unchanged and leaves every metadata field that was not null unchanged.
C10_StoredMetadataKept ==
    [][\A i \in DOMAIN binaries, k \in DOMAIN binaries' :
        LET old == binaries[i]
            new == binaries'[k]
        IN (/\ store_call' # Null
            /\ store_call'[1].id = old.id
            /\ store_call'[1].data = old.data
            /\ new.id = old.id)
           => /\ new.data = old.data
              /\ new.size = old.size
              /\ old.language # Null => new.language = old.language
              /\ old.optimization # Null => new.optimization = old.optimization
              /\ old.compiler_version # Null
                    => new.compiler_version = old.compiler_version
              /\ old.compile_flags # Null => new.compile_flags = old.compile_flags]_vars

\* C11: no response (challenge detail, submission status) carries expected_stdout
\* or data derived from it other than the pass/fail outcome: two challenges that
\* differ only in expected_stdout and yield the same pass/fail results get
\* identical responses.
C11_ExpectedStdoutHidden ==
    /\ judge.detail_responses # Null =>
          judge.detail_responses[1][1] = judge.detail_responses[1][2]
    /\ judge.status_responses # Null
       /\ judge.status_responses[1][1].status = judge.status_responses[1][2].status =>
          judge.status_responses[1][1] = judge.status_responses[1][2]

\* C12: the value the orchestrator compares against expected_stdout is the
\* base64-decoding of ExecutionResult.stdout, the raw bytes the program printed.
C12_ComparesRawOutput ==
    judge.compared # Null => judge.compared = judge.printed

\* the positions of s just after which a line starts: 0 and every "\n" that is
\* not the last byte
LineBreaks(s) == {0} \cup {i \in 1..(Len(s) - 1) : s[i] = 10}

\* the line of s that starts after position p, without its "\n"
LineAfter(s, p) ==
    LET ends == {q \in (p + 1)..Len(s) : s[q] = 10}
        last == IF ends = {} THEN Len(s) ELSE (CHOOSE q \in ends : \A r \in ends : q <= r) - 1
    IN SubSeq(s, p + 1, last)

\* line l without its leading and trailing whitespace
Stripped(l) ==
    LET inked == {i \in 1..Len(l) : l[i] \notin WhiteSpace}
    IN IF inked = {} THEN <<>>
       ELSE SubSeq(l, CHOOSE i \in inked : \A k \in inked : i <= k,
                      CHOOSE i \in inked : \A k \in inked : i >= k)

\* how many lines of s read x once stripped
StrippedCount(s, x) ==
    IF s = <<>> THEN 0
    ELSE Cardinality({p \in LineBreaks(s) : Stripped(LineAfter(s, p)) = x})

\* the stripped lines of a and of b are the same, one by one
SameStrippedLines(a, b) ==
    /\ (a = <<>>) = (b = <<>>)
    /\ Cardinality(LineBreaks(a)) = Cardinality(LineBreaks(b))
    /\ \A p \in LineBreaks(a), q \in LineBreaks(b) :
          Cardinality({i \in LineBreaks(a) : i < p}) = Cardinality({i \in LineBreaks(b) : i < q})
          => Stripped(LineAfter(a, p)) = Stripped(LineAfter(b, q))

\* the stripped lines of a and of b are the same up to their order
SameStrippedLinesSorted(a, b) ==
    \A x \in {Stripped(LineAfter(a, p)) : p \in LineBreaks(a)}
             \cup {Stripped(LineAfter(b, p)) : p \in LineBreaks(b)} :
        StrippedCount(a, x) = StrippedCount(b, x)

\* C13: verify_output returns, for every pair of strings, byte equality under
\* exact, equality of the sequences of stripped lines under trimmed, and equality
\* of those sequences once sorted under sorted; "b\na\n" and "a\nb\n" are equal
\* under sorted only, " a \n b\n" and "a\nb\n" under trimmed and sorted only.
C13_VerifyModes ==
    /\ verify # Null /\ verify.returned # Null =>
          verify.returned[1] =
              CASE verify.mode = "Exact" -> verify.actual = verify.expected
                [] verify.mode = "Trimmed" ->
                      SameStrippedLines(verify.actual, verify.expected)
                [] verify.mode = "Sorted" ->
                      SameStrippedLinesSorted(verify.actual, verify.expected)
    /\ verify # Null /\ verify.returned # Null
       /\ verify.actual = LinesBA /\ verify.expected = LinesAB =>
          verify.returned[1] = (verify.mode = "Sorted")
    /\ verify # Null /\ verify.returned # Null
       /\ verify.actual = LinesPadded /\ verify.expected = LinesAB =>
          verify.returned[1] = (verify.mode # "Exact")

\* verify_output has returned true for " a \n b\n" against "a\nb\n" under trimmed
C13_Witness ==
    /\ verify # Null
    /\ verify.actual = LinesPadded /\ verify.expected = LinesAB
    /\ verify.mode = "Trimmed"
    /\ verify.returned = Some(TRUE)

\* the orchestrator of submission s finishes the test loop in this step
FinishesLoop(s) ==
    /\ s \in DOMAIN subs
    /\ subs[s].pc = "final_status"
    /\ subs'[s].pc # "final_status"

\* every test case of the challenge was executed and its TestResult has passed
AllExecutedAndPassed(row) ==
    /\ Len(row.test_results) = Len(TestCases)
    /\ Len(row.executions) = Len(TestCases)
    /\ \A i \in DOMAIN row.test_results : row.test_results[i].passed

RECURSIVE MaxOf(_)
\* the largest of a sequence of counts, 0 for none
MaxOf(counts) ==
    IF counts = <<>> THEN 0
    ELSE LET m == MaxOf(Tail(counts)) IN IF Head(counts) >= m THEN Head(counts) ELSE m

\* C15: the instructions persisted on the submission row, and passed to the
\* leaderboard upsert, are the maximum instruction count over the test-case
\* executions of the submission.
C15_ScoreIsMaxInstructions ==
    [][\A s \in 1..MaxSubs :
         /\ FinishesLoop(s) => subs'[s].instructions = Some(MaxOf(subs[s].executions))
         /\ (s \in DOMAIN subs /\ subs[s].pc = "leaderboard" /\ subs'[s].pc = "done") =>
               leaderboard_entries' =
                   update_leaderboard_entry(leaderboard_entries, subs[s].user_id,
                                            subs[s].challenge_id, subs[s].language,
                                            MaxOf(subs[s].executions),
                                            subs[s].final_run_id[1], subs[s].source_code,
                                            subs[s].is_verified, now)]_vars

\* a submission whose two executions took 5 then 3 instructions has 5 on its row
C15_Witness ==
    \E s \in DOMAIN subs :
        /\ subs[s].pc = "leaderboard"
        /\ subs[s].executions = <<5, 3>>
        /\ subs[s].instructions = Some(5)

\* C16: for any job, at most one worker of a pipeline holds an un-acked delivery
\* of it at any time, even when handling it takes longer than ack_wait.
C16_OneWorkerPerJob ==
    /\ \A w1, w2 \in ExecWorkers :
          w1 # w2 /\ ew[w1].pc # "idle" /\ ew[w2].pc # "idle" => ew[w1].job.id # ew[w2].job.id
    /\ \A w1, w2 \in CompileWorkers :
          w1 # w2 /\ cw[w1].pc # "idle" /\ cw[w2].pc # "idle" => cw[w1].job.id # cw[w2].job.id

\* C17: every failure a worker meets while handling a job ends with the job's
\* metadata in a terminal state: a worker never acks a job while its metadata is
\* still Pending, Running or Compiling.
C17_AckOnlyTerminal ==
    [][\A w \in ExecWorkers :
         ew[w].pc = "ack" /\ ew'[w].pc = "idle" /\ ew[w].job.id \in DOMAIN jobs_kv =>
            jobs_kv[ew[w].job.id].status \in Terminal]_vars

RECURSIVE SumOfContributions(_, _)
\* the sum over the rows les of 1000 for a row at the minimum of its (challenge,
\* language) and floor(best * 1000 / instructions) for another
SumOfContributions(tbl, les) ==
    IF les = {} THEN 0
    ELSE LET r == CHOOSE k \in les : TRUE
             best == MinInstructions(tbl, r)
         IN (IF tbl[r].instructions = best THEN 1000
             ELSE (best * 1000) \div tbl[r].instructions)
            + SumOfContributions(tbl, les \ {r})

\* C18: in the global leaderboard a row contributes 1000 if its instructions are
\* the minimum of its (challenge, language) and floor(best * 1000 / instructions)
\* otherwise; total_score is the sum over the user's rows and first_places the
\* number of the user's rows at the minimum.
C18_GlobalScore ==
    board # Null /\ board.query = "global" =>
        \A i \in DOMAIN board.rows :
            LET les == {k \in DOMAIN leaderboard_entries : k[1] = board.rows[i].user}
            IN /\ board.rows[i].total_score = SumOfContributions(leaderboard_entries, les)
               /\ board.rows[i].first_places =
                     Cardinality({k \in les : leaderboard_entries[k].instructions
                                                 = MinInstructions(leaderboard_entries, k)})

\* C19: the per-challenge leaderboard returns its rows by instructions ascending;
\* with a language rank is 1..n in that order, without one rank restarts at 1
\* within each language while the rows are still by instructions ascending, and
\* the limit (at most 500) is applied to that order.
C19_OrderedByInstructions ==
    board # Null /\ board.query = "challenge" =>
        LET rows == board.rows
        IN /\ \A i, j \in DOMAIN rows : i < j => rows[i].instructions <= rows[j].instructions
           /\ Len(rows) <= min(board.limit, MAX_LIMIT)
           /\ board.language # Null => \A i \in DOMAIN rows : rows[i].rank = i
           /\ board.language = Null =>
                 \A i \in DOMAIN rows :
                     rows[i].rank = Cardinality({j \in 1..i : rows[j].language = rows[i].language})

\* C20: after any number of deliveries of an execute job there is at most one Run
\* row for its job_id, the Run id of a job_id never changes, and results/<job_id>
\* holds a single result.
C20_RunPerJobStable ==
    [][/\ \A i, k \in DOMAIN runs' : runs'[i].job_id = runs'[k].job_id => i = k
       /\ \A i \in DOMAIN runs : \E k \in DOMAIN runs' :
             runs'[k].job_id = runs[i].job_id /\ runs'[k].id = runs[i].id
       /\ \A j \in DOMAIN results_kv' : results_kv'[j] \in SandboxResults]_vars

\* a job was delivered twice and both deliveries have called save_run: the one
\* fault of the run is what made the second delivery
C20_Witness ==
    \E w1, w2 \in ExecWorkers :
        /\ w1 # w2
        /\ ew[w1].job.id = ew[w2].job.id
        /\ ew[w1].pc \in {"set_completed", "ack"}
        /\ ew[w2].pc \in {"set_completed", "ack"}
        /\ ew[w1].result # ew[w2].result
        /\ faults = 1
        /\ \E i \in DOMAIN runs : runs[i].job_id = ew[w1].job.id

\* the calls of one user and bucket whose statement has run
Counted(user_id, window_start) ==
    {c \in DOMAIN rate.calls : /\ rate.calls[c].user_id = user_id
                               /\ rate.calls[c].window_start = window_start
                               /\ rate.calls[c].count > 0}

\* count <= limit, for a count below 2^16 and a u32 limit
AtMost(count, limit) == limit.hi > 0 \/ count <= limit.lo

\* C21: for each user and minute bucket, under every interleaving, the calls
\* observe distinct counter values, a call succeeds exactly when it is among
\* the first limit_per_minute of its bucket and returns RateLimited
\* otherwise, and the counter of a bucket counts the calls of that bucket only.
C21_FirstLimitCallsSucceed ==
    \A user_id \in Users, window_start \in 0..MaxMinute :
        LET cs == Counted(user_id, window_start)
            key == <<user_id, window_start>>
        IN  /\ \A c \in cs, d \in cs : c # d => rate.calls[c].count # rate.calls[d].count
            /\ Cardinality(cs) = IF key \in DOMAIN rate.table THEN rate.table[key] ELSE 0
            /\ \A c \in cs : rate.calls[c].returned # Null =>
                  rate.calls[c].returned =
                      Some(IF AtMost(rate.calls[c].count, rate.limit_per_minute)
                           THEN "Ok" ELSE "RateLimited")

\* C22: whenever the orchestrator is at the final status update, test_results
\* holds exactly one TestResult for every test case index 0..N-1, in order,
\* whatever happened to the earlier tests.
C22_OneResultPerTest ==
    \A s \in DOMAIN subs :
        subs[s].pc = "final_status" =>
            /\ Len(subs[s].test_results) = Len(TestCases)
            /\ \A i \in DOMAIN TestCases : subs[s].test_results[i].test_index = i - 1

\* the loop is over: the execution of the first test case failed or timed out,
\* and the second test case was still run and passed
C22_Witness ==
    /\ subs[1].pc = "final_status"
    /\ subs[1].test_results[1].error = Some(<<"Execution failed", "Timeout">>)
    /\ subs[1].test_results[2].passed

\* the test cases of submission s whose execute job has been enqueued
Enqueued(s) == {t \in DOMAIN TestCases : JobOf(s, t) \in DOMAIN jobs_kv}

\* while the orchestrator of s runs, the jobs enqueued are those of the first
\* test cases in declared order, and the job of a test case is enqueued only
\* after the polling of every earlier test case has ended with a TestResult
InDeclaredOrder(s) ==
    subs[s].pc \in {"test", "poll", "final_status", "leaderboard"} =>
        /\ Enqueued(s) = 1..(IF subs[s].pc = "poll" THEN subs[s].test ELSE subs[s].test - 1)
        /\ Len(subs[s].test_results) = subs[s].test - 1

\* C23 as stated: test cases run in declared order, the job of test case i+1 is
\* enqueued only after the polling of test case i has ended, and at most one
\* execute job of the submission is non-terminal (queued or running) at any time.
C23_AtMostOneLiveJob ==
    \A s \in DOMAIN subs :
        /\ InDeclaredOrder(s)
        /\ Cardinality({t \in Enqueued(s) : jobs_kv[JobOf(s, t)].status \notin Terminal}) <= 1

\* C23, amended: test cases run in declared order, the job of test case i+1 is
\* enqueued only after the polling of test case i has ended, and at most one
\* execute job of the submission is being polled at any time; a job whose
\* polling has ended may still be queued or running.
C23_SequentialPolling ==
    \A s \in DOMAIN subs : InDeclaredOrder(s)

\* the job of the second test case is being polled after the polling of the
\* first has ended with a TestResult
C23_Witness ==
    /\ subs[1].pc = "poll"
    /\ subs[1].test = 2
    /\ Enqueued(1) = {1, 2}
    /\ Len(subs[1].test_results) = 1

\* the entries of a list of TestResults that record a polling out of budget
TimedOutIn(results) ==
    {t \in DOMAIN results : results[t].error = Some(<<"Execution failed", "Timeout">>)}

\* the test cases of submission s whose polling ran out of its budget, as the
\* orchestrator holds them or as the row stores them
TimedOut(s) ==
    TimedOutIn(subs[s].test_results)
        \cup (IF subs[s].test_results_json = Null THEN {}
              ELSE TimedOutIn(subs[s].test_results_json[1]))

\* the submission row as stored: not the locals of the orchestrator
StoredRow(row) ==
    [status |-> row.status, binary_id |-> row.binary_id, instructions |-> row.instructions,
     test_results_json |-> row.test_results_json, error_message |-> row.error_message,
     completed_at |-> row.completed_at]

\* C30: a polling that exceeds its budget records the test case as failed and
\* leaves the job as it is; a Completed status or a result written for that job
\* afterwards changes neither the submission row nor the test_results nor any
\* leaderboard row, and the submission never passes nor reaches the leaderboard.
C30_LateCompletionOrphaned ==
    [][\A s \in DOMAIN subs :
        /\ \A t \in TimedOut(s)' \ TimedOut(s) :
              /\ ~subs'[s].test_results[t].passed
              /\ ~subs'[s].all_passed
              /\ UNCHANGED <<jobs_stream, jobs_kv, results_kv, runs, ew>>
        /\ \A t \in TimedOut(s) :
              /\ subs'[s].status # "passed"
              /\ leaderboard_entries' = leaderboard_entries
              /\ LET j == JobOf(s, t)
                 IN (\/ jobs_kv'[j] # jobs_kv[j]
                     \/ (j \in DOMAIN results_kv' /\ j \notin DOMAIN results_kv)) =>
                        /\ StoredRow(subs'[s]) = StoredRow(subs[s])
                        /\ subs'[s].test_results = subs[s].test_results]_vars

\* the orchestrator has returned with the first test case timed out and the
\* submission failed; the job of that test case is Completed with its result
\* stored, the worker that completed it has not acked yet
C30_Witness ==
    /\ subs[1].pc = "done"
    /\ subs[1].status = "failed"
    /\ 1 \in TimedOut(1)
    /\ leaderboard_entries = <<>>
    /\ jobs_kv[JobOf(1, 1)].status = "Completed"
    /\ JobOf(1, 1) \in DOMAIN results_kv
    /\ \E w \in ExecWorkers : ew[w].pc = "ack" /\ ew[w].job.id = JobOf(1, 1)
    /\ JobOf(1, 2) \in DOMAIN jobs_kv /\ jobs_kv[JobOf(1, 2)].status = "Pending"

\* the metadata of one job: terminal states carry completed_at, Failed carries
\* an error, Pending carries neither started_at nor completed_at
MetadataWellFormed(metadata) ==
    /\ metadata.status \in Terminal => metadata.completed_at # 0
    /\ metadata.status = "Failed" => metadata.error # Null
    /\ metadata.status = "Pending" => metadata.started_at = 0 /\ metadata.completed_at = 0

\* C24: in every reachable state a job (execute or compile) whose status is
\* Completed or Failed has completed_at set, a job whose status is Failed has a
\* non-null error, and a job whose status is Pending has neither started_at
\* nor completed_at.
C24_TerminalHasCompletedAt ==
    /\ \A j \in DOMAIN jobs_kv : MetadataWellFormed(jobs_kv[j])
    /\ \A j \in DOMAIN compiles_kv : MetadataWellFormed(compiles_kv[j])

\* an execute job has Failed and a compile job has Completed
C24_Witness ==
    /\ \E j \in DOMAIN jobs_kv : jobs_kv[j].status = "Failed"
    /\ \E j \in DOMAIN compiles_kv : compiles_kv[j].status = "Completed"

\* C25: the workers write the result before status Completed, hence in every
\* reachable state an execute job whose status is Completed has its entry in
\* results_kv and a compile job whose status is Completed has its
\* compiles/<id>_result entry: a poller that observes Completed finds the result.
C25_CompletedHasResult ==
    /\ \A j \in DOMAIN jobs_kv :
          jobs_kv[j].status = "Completed" => j \in DOMAIN results_kv
    /\ \A j \in DOMAIN compiles_kv :
          compiles_kv[j].status = "Completed" => j \in DOMAIN compile_results

\* the ways to read s as prefix, newline, a single-line object in braces (with
\* at least one byte between them), and at most one newline: the last position
\* of the prefix and of the object
TrailingObjects(s) ==
    {d \in (0..Len(s)) \X (1..Len(s)) :
        /\ d[1] + 4 <= d[2]
        /\ s[d[1] + 1] = ByteLf
        /\ s[d[1] + 2] = ByteOpen
        /\ s[d[2]] = ByteClose
        /\ \A k \in (d[1] + 2)..d[2] : s[k] # ByteLf
        /\ d[2] = Len(s) \/ (d[2] = Len(s) - 1 /\ s[Len(s)] = ByteLf)}

C27_MissingBinaryFailsJob ==
    [][\A w \in ExecWorkers :
        (ew[w].pc = "fetch_binary" /\ ew'[w].pc # "fetch_binary" /\ ew'[w].binary = <<>>) =>
            /\ jobs_kv'[ew[w].job.id].status = "Failed"
            /\ jobs_kv'[ew[w].job.id].error # Null
            /\ ew'[w].pc = "ack"
            /\ results_kv' = results_kv
            /\ runs' = runs]_vars

\* C28: a delivery whose compilation fails (compile_source returns Err, or the
\* upload of the binary fails after its retries) leaves the job's metadata
\* Failed with an error and acks the message, and writes neither a
\* compile-cache entry nor a compiles/<id>_result entry.
C28_FailedCompileEndsFailed ==
    [][\A w \in CompileWorkers :
        LET job_id == cw[w].job.id
        IN /\ (cw[w].pc = "set_failed" /\ cw'[w].pc = "ack") =>
                /\ compiles_kv'[job_id].status = "Failed"
                /\ compiles_kv'[job_id].error # Null
           /\ (cw[w].pc = "ack" /\ cw[w].error # Null /\ cw'[w].pc = "idle") =>
                job_id \notin DOMAIN compiles_stream'
           /\ ((cw[w].pc \in {"compile", "upload", "set_failed"} /\ cw'[w].pc \in {"set_failed", "ack"})
                    \/ (cw[w].pc = "ack" /\ cw[w].error # Null /\ cw'[w].pc = "idle")) =>
                /\ compile_cache_kv' = compile_cache_kv
                /\ compile_results' = compile_results]_vars

\* the last call of PUT /binaries/:id stored the binary that worker w compiled
UploadLanded(w) ==
    /\ store_call' # Null
    /\ store_call'[1].id = compute_binary_id(cw[w].binary)
    /\ store_call'[1].data = cw[w].binary

\* C29: store_compile_result makes at most MAX_ATTEMPTS (3) uploads: every turn
\* of its loop counts one attempt; it leaves the loop for the cache entry only
\* on an upload that succeeded, tries again only after an attempt that failed
\* and was not the third, and on a failed third attempt returns an error with
\* the compile-cache untouched.  A compile-cache entry is written only by a
\* worker that is past a successful upload.
C29_UploadRetriesBounded ==
    [][/\ \A w \in CompileWorkers :
            /\ cw'[w].attempts <= MAX_ATTEMPTS
            /\ (cw[w].pc = "upload" /\ cw'[w] # cw[w]) =>
                    /\ cw'[w].attempts = cw[w].attempts + 1
                    /\ compile_cache_kv' = compile_cache_kv
                    /\ cw'[w].pc \in {"cache_put", "upload", "set_failed"}
                    /\ cw'[w].pc = "cache_put" => UploadLanded(w)
                    /\ cw'[w].pc = "upload" =>
                            /\ UNCHANGED storeVars
                            /\ cw'[w].attempts < MAX_ATTEMPTS
                    /\ cw'[w].pc = "set_failed" =>
                            /\ UNCHANGED storeVars
                            /\ cw'[w].attempts = MAX_ATTEMPTS
                            /\ cw'[w].error # Null
            /\ (cw[w].pc # "upload" /\ cw'[w].pc # "idle") =>
                    cw'[w].attempts = cw[w].attempts
       /\ \A k \in DOMAIN compile_cache_kv' :
            (k \notin DOMAIN compile_cache_kv \/ compile_cache_kv'[k] # compile_cache_kv[k]) =>
                \E w \in CompileWorkers :
                    /\ cw[w].pc = "cache_put"
                    /\ cw[w].cache_key = k
                    /\ cw[w].attempts \in 1..MAX_ATTEMPTS
                    /\ compile_cache_kv'[k] = cw[w].result]_vars

\* one worker is past a failed third upload while another stored its binary on
\* a later attempt and wrote the cache entry
C29_Witness ==
    \E w1, w2 \in CompileWorkers :
        /\ cw[w1].pc = "set_failed" /\ cw[w1].attempts = MAX_ATTEMPTS
        /\ cw[w1].error # Null /\ cw[w1].result = NoCompileResult
        /\ cw[w2].pc = "put_result" /\ cw[w2].attempts > 1
        /\ cw[w2].cache_key \in DOMAIN compile_cache_kv

C32_OnlyPassedTouchesLeaderboard ==
    [][/\ leaderboard_entries' # leaderboard_entries =>
            \E s \in DOMAIN subs :
                /\ subs[s].status = "passed" /\ subs[s].pc = "leaderboard"
                /\ subs'[s].status = "passed" /\ subs'[s].pc = "done"
                /\ \A k \in DOMAIN leaderboard_entries' :
                        (k \notin DOMAIN leaderboard_entries
                            \/ leaderboard_entries'[k] # leaderboard_entries[k]) =>
                        k = <<subs[s].user_id, subs[s].challenge_id, subs[s].language>>
       /\ \A s \in DOMAIN subs :
            /\ subs[s].pc = "done" => subs'[s] = subs[s]
            /\ (subs'[s].pc = "done" /\ subs'[s].status = "failed") =>
                    leaderboard_entries' = leaderboard_entries]_vars

\* a submission has ended failed after a failing test while the row its user
\* held before is as it was
C32_Witness ==
    \E s \in DOMAIN subs :
        /\ subs[s].pc = "done" /\ subs[s].status = "failed"
        /\ subs[s].test_results_json # Null
        /\ leaderboard_entries = EarlierEntry(subs[s].user_id)

\* the place of a status on the way pending, compiling, running, then passed
\* or failed
StatusRank(status) ==
    CASE status = "pending" -> 0
      [] status = "compiling" -> 1
      [] status = "running" -> 2
      [] status \in {"passed", "failed"} -> 3

\* C37: the status of a submission only moves forward along pending,
\* compiling, running, then passed or failed, and a submission that is passed
\* or failed keeps that status.
C37_StatusMovesForward ==
    [][\A s \in DOMAIN subs :
        /\ StatusRank(subs[s].status) <= StatusRank(subs'[s].status)
        /\ subs[s].status \in {"passed", "failed"} =>
                subs'[s].status = subs[s].status]_vars

C34_BoundedExecutions ==
    [][/\ Cardinality(direct'.containers) <= direct.max_concurrent
       /\ Cardinality(Holding(direct'.reqs)) <= direct.max_concurrent
       /\ direct'.permits = direct.max_concurrent - Cardinality(Holding(direct'.reqs))
       /\ (Len(direct'.reqs) > Len(direct.reqs) /\ direct.permits = 0) =>
            direct'.reqs[Len(direct'.reqs)] =
                [pc |-> "done", response |-> Some("TooManyRequests")]]_vars

\* the part of it that is about the handlers: at most max_concurrent requests
\* hold a permit, a request with no permit left is rejected at once, and every
\* return gives the permit back
C34_PermitsBalanced ==
    [][/\ Cardinality(Holding(direct'.reqs)) <= direct.max_concurrent
       /\ direct'.permits = direct.max_concurrent - Cardinality(Holding(direct'.reqs))
       /\ (Len(direct'.reqs) > Len(direct.reqs) /\ direct.permits = 0) =>
            direct'.reqs[Len(direct'.reqs)] =
                [pc |-> "done", response |-> Some("TooManyRequests")]]_vars

\* the execute jobs of the loop over the test cases of submission s
OrchestratorJobs(s) == {JobOf(s, t) : t \in DOMAIN TestCases}

\* C35: the execute worker runs the sandbox with --network=none unless the job
\* has network_enabled; the jobs of POST /submit and POST /execute have
\* network_enabled = false, and a job of the orchestrator has the flag of its
\* challenge, so a sandbox runs with a network only for a job that the
\* orchestrator created for a challenge with network_enabled.
C35_NetworkOnlyForChallenge ==
    /\ \A j \in DOMAIN jobs_stream :
            LET job == jobs_stream[j].job
            IN IF \E s \in DOMAIN subs : j \in OrchestratorJobs(s)
               THEN \A s \in DOMAIN subs : j \in OrchestratorJobs(s) =>
                        job.network_enabled = Challenges[subs[s].challenge_id].network_enabled
               ELSE ~job.network_enabled
    /\ \A w \in ExecWorkers :
            /\ ew[w].network # "not run" =>
                    (ew[w].network = "none" <=> ~ew[w].job.network_enabled)
            /\ ew[w].network \notin {"not run", "none"} =>
                    \E s \in DOMAIN subs :
                        /\ ew[w].job.id \in OrchestratorJobs(s)
                        /\ Challenges[subs[s].challenge_id].network_enabled

\* a worker has run a job of the challenge with network_enabled on the default
\* network while a job of POST /submit or POST /execute waits with the flag off
C35_Witness ==
    /\ \E w \in ExecWorkers : ew[w].network = "default" /\ ew[w].job.network_enabled
    /\ \E j \in DOMAIN jobs_stream : j <= MaxJobs /\ ~jobs_stream[j].job.network_enabled

SortedOrder(m) == CHOOSE o \in IterOrders(m) : sort_by_key(o) = o

\* C39: a cache key that has been computed for a request is the key of no other
\* request: two tuples (source, language, optimization, flags) that differ in a
\* component feed different bytes to the hash
C39_DistinctRequestsDistinctKeys ==
    \A other \in SeamRequests :
        other # ck_req =>
            compute_cache_key(other.source, other.language, other.optimization,
                              SortedOrder(other.flags)) \notin ck_keys

\* C40: the Pending metadata is written before the message is published: every
\* message on a stream and every job a worker holds has its metadata entry, and
\* no write takes an entry back to Pending once a worker has written its status
C40_MetadataBeforeMessage ==
    /\ [](/\ DOMAIN jobs_stream \subseteq DOMAIN jobs_kv
          /\ DOMAIN compiles_stream \subseteq DOMAIN compiles_kv
          /\ ew["w1"].pc # "idle" => ew["w1"].job.id \in DOMAIN jobs_kv
          /\ cw["c1"].pc # "idle" => cw["c1"].job.id \in DOMAIN compiles_kv)
    /\ [][/\ \A j \in DOMAIN jobs_kv :
                /\ j \in DOMAIN jobs_kv'
                /\ jobs_kv[j].status # "Pending" => jobs_kv'[j].status # "Pending"
          /\ \A j \in DOMAIN compiles_kv :
                /\ j \in DOMAIN compiles_kv'
                /\ compiles_kv[j].status # "Pending" => compiles_kv'[j].status # "Pending"]_vars

\* a worker has written the status of one job while the API is between the put
\* and the publish of the next one
C40_Witness ==
    /\ submitting # <<>>
    /\ \E j \in DOMAIN jobs_kv \cup DOMAIN compiles_kv : j \in DOMAIN submitting
    /\ \/ \E j \in DOMAIN jobs_kv : jobs_kv[j].status \in {"Running", "Completed", "Failed"}
       \/ \E j \in DOMAIN compiles_kv : compiles_kv[j].status \in {"Compiling", "Completed", "Failed"}
====
